---------------------------- MODULE Spec2Model ----------------------------
(***************************************************************************)
(* Model of balance-sheets-backend: the 10-K sectioning and chunking       *)
(* pipeline (process_10k_improved.py, process_multiple_10ks.py), the       *)
(* embedding of the chunks (generate_embeddings.py), the rate limit and    *)
(* the worker pool of the company collector (fetch_all_companies_fast.py), *)
(* the retry loop of the API client (fetcher.py) and the daily limit of    *)
(* the data pipeline (pipeline.py, fetch_historical.py, database.py).      *)
(*                                                                         *)
(* Texts.  create_chunks only looks at the whitespace-separated words of   *)
(* its text, so a section text is the record                               *)
(*     [words |-> <<w1, ..., wn>>, wide |-> S]                             *)
(* where the words are word identities (the position of the word in the    *)
(* section) and S is the set of positions i such that wi is followed by    *)
(* more than one blank (clean_section_text leaves such gaps where it       *)
(* deletes a boilerplate token).  str.split() forgets the gaps,            *)
(* ' '.join() produces single blanks.                                      *)
(*                                                                         *)
(* Specifications.                                                         *)
(*   SpecChunks    one call of create_chunks, one action per iteration of  *)
(*                 its loop, on the sentences sent_tokenize returns        *)
(*   SpecSections  one call of extract_sections on a filing text           *)
(*   SpecPipeline  one call of process_multiple_years, with the calls of   *)
(*                 process_10k it makes                                    *)
(*   SpecLongSection  one call of create_chunks on a section of sentences  *)
(*                 of 50 words                                             *)
(*   SpecClean     clean_section_text, called on a text and on its result  *)
(*   SpecEmbed     one call of process_all_years of EmbeddingGenerator     *)
(*   SpecRate      the worker threads of parallel_process_companies in     *)
(*                 wait_for_rate_limit; SpecRateFair adds that the clock   *)
(*                 goes on and every thread runs                           *)
(*   SpecRequest   one call of FMPClient._make_request                     *)
(*   SpecDay       the worker threads in process_company and               *)
(*                 fetch_historical_data, on table data_fetch_log          *)
(*   SpecPool      one call of parallel_process_companies: the futures and *)
(*                 the loop that collects their results                    *)
(* The fallback text.split('. ') of create_chunks (taken when sent_tokenize*)
(* raises) is not modelled.                                                *)
(***************************************************************************)
EXTENDS Integers, Sequences, FiniteSets, TLC

\* ---------------------------------------------------------------- constants
MAX_CHUNK_SIZE_WORDS == 1000
MIN_CHUNK_SIZE_WORDS == 100
\* OVERLAP_PERCENTAGE = 0.15, held in hundredths
OVERLAP_PERCENTAGE == 15

\* ------------------------------------------------------------------- bounds
\* longest section of the chunker runs, in sentences
MaxSentences == 3

\* longest filing text of the runs of extract_sections, in tokens
MaxTokens == 4

\* longest text of the runs of clean_section_text, in tokens
MaxCleanTokens == 4

\* most filings of a run of process_multiple_years
MaxFilings == 2

\* word counts a sentence of the chunker runs can have
SentLens == {3, 50, 500, 900, 998, 1001}

VARIABLES
    \* create_chunks: arguments
    text, section_name,
    \* create_chunks: locals
    sentences, si, current_chunk, current_word_count, chunks, cpc,
    \* history: closedAt[j] is the index of the sentence that closed chunks[j]
    closedAt,
    \* extract_sections: argument, locals, result and control position
    ftext, found_sections, spans, sections, epc,
    \* process_multiple_years: filings, loop index i, results, control position
    filings, fi, results, ppc,
    \* process_10k: text_content, sections, all_chunks, return value
    text_content, p_sections, all_chunks, success,
    \* the output files written, as <<filing, kind>>
    files,
    \* history: the filings downloaded, those for which extract_sections
    \* returned no section, those for which create_chunks was called
    downloaded, zero_sections, chunked,
    \* clean_section_text: argument, result, result of a second call on the
    \* result, control position
    ctext, cleaned, recleaned, kpc,
    \* process_all_years: chunk_files, the index of file_path in it, results,
    \* control position
    chunk_files, file_path, g_results, gpc,
    \* EmbeddingGenerator: self.total_cost, self.processed_chunks
    total_cost, self_processed_chunks,
    \* process_chunks_file: locals
    processed_chunks, chunks_to_process, chunks_with_embeddings,
    estimated_cost, batch_i,
    \* the disk: the progress file, the _embedded.json files (their chunks)
    \* and the _embedded.parquet files
    resume_file, json_files, parquet_files,
    \* history: the calls of the embedding API, the answers given to the cost
    \* question, the progress dictionary the call of process_chunks_file loaded
    api_log, confirmations, loaded,
    \* FastCompanyCollector: calls_this_minute, total_api_calls, and the
    \* seconds from minute_start to the clock
    calls_this_minute, total_api_calls, since_minute_start,
    \* parallel_process_companies: the tickers not yet taken by a worker, and
    \* the position of every worker thread
    pending, wpc,
    \* history: the calls granted since the last reset; the calls granted in
    \* the last minute, by their age in seconds; the workers that have slept
    \* in their call of wait_for_rate_limit; the workers whose call was granted
    granted_since_reset, recent, slept, granted,
    \* FMPClient._make_request: the endpoint, the loop variable attempt, the
    \* value returned or the exception raised, control position
    endpoint, attempt, r_result, rpc,
    \* history: what every attempt gave, and the seconds of every time.sleep
    outcomes, sleeps,
    \* the rows of table data_fetch_log of the current day, the local
    \* calls_today and control position of every thread, the tickers it has
    \* still to do
    data_fetch_log, calls_today, dpc, todo,
    \* history: the requests sent to the API in the current day, and the
    \* threads that made a call that found the limit reached
    requests_made, refused,
    \* parallel_process_companies: tickers, existing, new_tickers, the state
    \* of every future, the index of the loop over futures, completed,
    \* control position
    tickers, existing, new_tickers, futures, fut_i, completed, qpc,
    \* FastCompanyCollector: self.processed_companies, self.failed_companies
    processed_companies, failed_companies,
    \* history: the futures in the order in which their workers finished
    finish_order

chunkVars == <<text, section_name, sentences, si, current_chunk,
               current_word_count, chunks, cpc, closedAt>>

sectVars == <<ftext, found_sections, spans, sections, epc>>

pipeVars == <<filings, fi, results, ppc, text_content, p_sections,
              all_chunks, success, files, downloaded, zero_sections, chunked>>

cleanVars == <<ctext, cleaned, recleaned, kpc>>

embedVars == <<chunk_files, file_path, g_results, gpc, total_cost,
               self_processed_chunks, processed_chunks, chunks_to_process,
               chunks_with_embeddings, estimated_cost, batch_i, resume_file,
               json_files, parquet_files, api_log, confirmations, loaded>>

rateVars == <<calls_this_minute, total_api_calls, since_minute_start,
              pending, wpc, granted_since_reset, recent, slept, granted>>

reqVars == <<endpoint, attempt, r_result, rpc, outcomes, sleeps>>

dayVars == <<data_fetch_log, calls_today, dpc, todo, requests_made, refused>>

poolVars == <<tickers, existing, new_tickers, futures, fut_i, completed, qpc,
              processed_companies, failed_companies, finish_order>>

vars == <<chunkVars, sectVars, pipeVars, cleanVars, embedVars, rateVars,
          reqVars, dayVars, poolVars>>

\* ------------------------------------------------------------ text helpers
RECURSIVE SumTo(_, _)
SumTo(lens, n) == IF n = 0 THEN 0 ELSE lens[n] + SumTo(lens, n - 1)

RECURSIVE Flatten(_)
Flatten(ss) == IF ss = <<>> THEN <<>> ELSE Head(ss) \o Flatten(Tail(ss))

\* str.split(): the words of a text, whatever the blanks between them
Split(t) == t.words

\* ' '.join(words): the words separated by exactly one blank
Join(ws) == [words |-> ws, wide |-> {}]

\* sent_tokenize(text): the tokenizer is a library; a run is given the
\* sentences it returns, each with its words.  Sentence i of a section with
\* sentence lengths lens holds the words SumTo(lens, i-1)+1 .. SumTo(lens, i).
SentencesOf(lens) ==
    [i \in 1..Len(lens) |-> [j \in 1..lens[i] |-> SumTo(lens, i - 1) + j]]

LenSeqs == UNION {[1..n -> SentLens] : n \in 1..MaxSentences}

\* the texts that tokenize to the sentences ss: their words, and the gaps
TextsOf(ss) ==
    LET ws == Flatten(ss) IN
    {[words |-> ws, wide |-> g] : g \in IF Len(ws) >= 2 THEN {{}, {1}} ELSE {{}}}

\* ------------------------------------------------------------ create_chunks
\* variant of OverlapWords: no overlap
OverlapWordsMutNone(n) == 0

\* variant of OverlapWords: one word too many
OverlapWordsMutOffByOne(n) == (n * OVERLAP_PERCENTAGE) \div 100 + 1

\* line 284: int(current_word_count * OVERLAP_PERCENTAGE); the float product
\* truncates to the same integer as the exact one for every count below
\* 200000
OverlapWords(n) == (n * OVERLAP_PERCENTAGE) \div 100

\* current_chunk[-overlap_words:]
LastWords(ws, k) == SubSeq(ws, Len(ws) - k + 1, Len(ws))

Chunk(t, n, name) == [text |-> t, word_count |-> n, section |-> name]

\* variant of MustClose: a buffer that would just reach the maximum is closed
MustCloseMutAtMax(cur, cnt, words) ==
    cnt + Len(words) >= MAX_CHUNK_SIZE_WORDS /\ cur # <<>>

\* variant of MustClose: a buffer above the maximum is not closed
MustCloseMutKeepOversized(cur, cnt, words) ==
    /\ cnt + Len(words) > MAX_CHUNK_SIZE_WORDS
    /\ cur # <<>>
    /\ cnt <= MAX_CHUNK_SIZE_WORDS

\* line 274: would this sentence push the buffer above the maximum
MustClose(cur, cnt, words) ==
    cnt + Len(words) > MAX_CHUNK_SIZE_WORDS /\ cur # <<>>

\* variant of NextBuffer: no word of the closed chunk is carried over
NextBufferMutNoOverlap(cur, cnt, words) == words

\* variant of NextBuffer: the new buffer is cut at the maximum
NextBufferMutTruncate(cur, cnt, words) ==
    LET b == LastWords(cur, OverlapWords(cnt)) \o words
    IN IF Len(b) > MAX_CHUNK_SIZE_WORDS
       THEN SubSeq(b, 1, MAX_CHUNK_SIZE_WORDS)
       ELSE b

\* lines 283-293: the buffer that follows a closed chunk
NextBuffer(cur, cnt, words) ==
    LET overlap_words == OverlapWords(cnt)
        overlap_text == IF overlap_words > 0
                        THEN Join(LastWords(cur, overlap_words))
                        ELSE Join(<<>>)
    IN IF Split(overlap_text) # <<>>
       THEN Split(overlap_text) \o words
       ELSE words

\* lines 290 and 293: the word count that goes with NextBuffer
NextCount(cur, cnt, words) ==
    IF OverlapWords(cnt) > 0 /\ LastWords(cur, OverlapWords(cnt)) # <<>>
    THEN Len(NextBuffer(cur, cnt, words))
    ELSE Len(words)

\* variant of FinalChunks: a final buffer below the minimum is dropped
FinalChunksMutDropShort(t, cur, cnt, name) ==
    IF cur # <<>> /\ cnt >= MIN_CHUNK_SIZE_WORDS
    THEN <<Chunk(Join(cur), cnt, name)>>
    ELSE <<>>

\* variant of FinalChunks: the final buffer is always emitted joined
FinalChunksMutJoin(t, cur, cnt, name) ==
    IF cur # <<>> THEN <<Chunk(Join(cur), cnt, name)>> ELSE <<>>

\* lines 298-312: the chunks appended after the loop
FinalChunks(t, cur, cnt, name) ==
    IF cur # <<>> /\ cnt >= MIN_CHUNK_SIZE_WORDS
    THEN <<Chunk(Join(cur), cnt, name)>>
    ELSE IF cur # <<>> /\ Len(Split(t)) < MIN_CHUNK_SIZE_WORDS
    THEN <<Chunk(t, Len(Split(t)), name)>>
    ELSE <<>>

\* no run of extract_sections
IdleSections ==
    /\ ftext = <<>>
    /\ found_sections = <<>>
    /\ spans = <<>>
    /\ sections = <<>>
    /\ epc = "idle"

\* no run of process_multiple_years
IdlePipeline ==
    /\ filings = <<>>
    /\ fi = 1
    /\ results = <<>>
    /\ ppc = "idle"
    /\ text_content = <<>>
    /\ p_sections = <<>>
    /\ all_chunks = <<>>
    /\ success = FALSE
    /\ files = {}
    /\ downloaded = {}
    /\ zero_sections = {}
    /\ chunked = {}

\* no run of clean_section_text
IdleClean ==
    /\ ctext = <<>>
    /\ cleaned = <<>>
    /\ recleaned = <<>>
    /\ kpc = "idle"

\* a file of the disk that exists, with its content; the progress file and
\* an _embedded.json file when os.path.exists is False
File(content) == [exists |-> TRUE, content |-> content]
NoResumeFile == [exists |-> FALSE, content |-> {}]
NoJsonFile == [exists |-> FALSE, content |-> <<>>]

\* no run of generate_embeddings.main
IdleEmbed ==
    /\ chunk_files = <<>>
    /\ file_path = 1
    /\ g_results = <<>>
    /\ gpc = "idle"
    /\ total_cost = 0
    /\ self_processed_chunks = 0
    /\ processed_chunks = {}
    /\ chunks_to_process = <<>>
    /\ chunks_with_embeddings = <<>>
    /\ estimated_cost = 0
    /\ batch_i = 0
    /\ resume_file = NoResumeFile
    /\ json_files = <<>>
    /\ parquet_files = {}
    /\ api_log = <<>>
    /\ confirmations = <<>>
    /\ loaded = {}

\* no FastCompanyCollector
IdleRate ==
    /\ calls_this_minute = 0
    /\ total_api_calls = 0
    /\ since_minute_start = 0
    /\ pending = 0
    /\ wpc = <<>>
    /\ granted_since_reset = 0
    /\ recent = {}
    /\ slept = {}
    /\ granted = {}

\* no call of FMPClient._make_request
IdleRequest ==
    /\ endpoint = ""
    /\ attempt = 0
    /\ r_result = "none"
    /\ rpc = "idle"
    /\ outcomes = <<>>
    /\ sleeps = <<>>

\* no call of process_company or fetch_historical_data
IdleDay ==
    /\ data_fetch_log = <<>>
    /\ calls_today = <<>>
    /\ dpc = <<>>
    /\ todo = 0
    /\ requests_made = 0
    /\ refused = {}

\* no call of parallel_process_companies
IdlePool ==
    /\ tickers = <<>>
    /\ existing = {}
    /\ new_tickers = <<>>
    /\ futures = <<>>
    /\ fut_i = 0
    /\ completed = 0
    /\ qpc = "idle"
    /\ processed_companies = {}
    /\ failed_companies = <<>>
    /\ finish_order = <<>>

\* no run of create_chunks
IdleChunks ==
    /\ section_name = ""
    /\ sentences = <<>>
    /\ text = [words |-> <<>>, wide |-> {}]
    /\ si = 1
    /\ current_chunk = <<>>
    /\ current_word_count = 0
    /\ chunks = <<>>
    /\ closedAt = <<>>
    /\ cpc = "idle"

InitChunks ==
    /\ section_name = "Item 1 - Business"
    /\ sentences \in {SentencesOf(l) : l \in LenSeqs}
    /\ text \in TextsOf(sentences)
    /\ si = 1
    /\ current_chunk = <<>>
    /\ current_word_count = 0
    /\ chunks = <<>>
    /\ closedAt = <<>>
    /\ cpc = "loop"
    /\ IdleSections
    /\ IdlePipeline
    /\ IdleClean
    /\ IdleEmbed
    /\ IdleRate
    /\ IdleRequest
    /\ IdleDay
    /\ IdlePool

\* one iteration of the loop of line 269, the branch of lines 275-293
CC_Close ==
    /\ cpc = "loop"
    /\ si <= Len(sentences)
    /\ LET words == sentences[si] IN
       /\ MustClose(current_chunk, current_word_count, words)
       /\ chunks' = Append(chunks,
               Chunk(Join(current_chunk), current_word_count, section_name))
       /\ current_chunk' = NextBuffer(current_chunk, current_word_count, words)
       /\ current_word_count' = NextCount(current_chunk, current_word_count, words)
    /\ closedAt' = Append(closedAt, si)
    /\ si' = si + 1
    /\ UNCHANGED <<text, section_name, sentences, cpc>>
    /\ UNCHANGED <<sectVars, pipeVars, cleanVars, embedVars, rateVars, reqVars, dayVars, poolVars>>

\* one iteration of the loop of line 269, the branch of lines 295-296
CC_Extend ==
    /\ cpc = "loop"
    /\ si <= Len(sentences)
    /\ LET words == sentences[si] IN
       /\ ~MustClose(current_chunk, current_word_count, words)
       /\ current_chunk' = current_chunk \o words
       /\ current_word_count' = current_word_count + Len(words)
    /\ si' = si + 1
    /\ UNCHANGED <<text, section_name, sentences, chunks, closedAt, cpc>>
    /\ UNCHANGED <<sectVars, pipeVars, cleanVars, embedVars, rateVars, reqVars, dayVars, poolVars>>

\* lines 298-314: the final chunk, and the return
CC_Final ==
    /\ cpc = "loop"
    /\ si > Len(sentences)
    /\ chunks' = chunks \o
           FinalChunks(text, current_chunk, current_word_count, section_name)
    /\ cpc' = "done"
    /\ UNCHANGED <<text, section_name, sentences, si, current_chunk,
                   current_word_count, closedAt>>
    /\ UNCHANGED <<sectVars, pipeVars, cleanVars, embedVars, rateVars, reqVars, dayVars, poolVars>>

NextChunks == CC_Close \/ CC_Extend \/ CC_Final

SpecChunks == InitChunks /\ [][NextChunks]_vars

\* ------------------------------------------------- claims on create_chunks
Range(f) == {f[i] : i \in DOMAIN f}

\* the words s, in this order and next to each other, inside the words ws
Contains(ws, s) ==
    \E o \in 0..(Len(ws) - Len(s)) :
        ws[o + 1] = s[1] /\ SubSeq(ws, o + 1, o + Len(s)) = s

\* C1: overlap invariant.  For every pair of consecutive chunks (P, C) of a
\* section, with k = floor(P.word_count * 0.15), the first k words of C are
\* the last k words of P; when k = 0, C starts with the sentence that
\* triggered the close and holds no word of P.
C1_OverlapInvariant ==
    \A j \in 1..(Len(chunks) - 1) :
        LET pw == Split(chunks[j].text)
            cw == Split(chunks[j + 1].text)
            k  == (chunks[j].word_count * 15) \div 100
            s  == sentences[closedAt[j]]
        IN /\ Len(cw) >= k
           /\ SubSeq(cw, 1, k) = SubSeq(pw, Len(pw) - k + 1, Len(pw))
           /\ k = 0 => /\ SubSeq(cw, 1, Len(s)) = s
                       /\ Range(cw) \cap Range(pw) = {}

\* a section closed twice, once with an overlap of zero words and once with
\* an overlap of more than zero words
C1_Witness ==
    /\ Len(chunks) >= 3
    /\ (chunks[1].word_count * 15) \div 100 = 0
    /\ (chunks[2].word_count * 15) \div 100 > 0

\* C2: upper size bound.  Every emitted chunk has at most
\* MAX_CHUNK_SIZE_WORDS words, unless it contains a sentence that is itself
\* longer than MAX_CHUNK_SIZE_WORDS.
C2_UpperBound ==
    \A j \in 1..Len(chunks) :
        \/ chunks[j].word_count <= 1000
        \/ \E i \in 1..Len(sentences) :
              /\ Len(sentences[i]) > 1000
              /\ Contains(Split(chunks[j].text), sentences[i])

\* C3: lower size bound.  Every emitted chunk has at least
\* MIN_CHUNK_SIZE_WORDS words, except the single chunk of a section that is
\* shorter than MIN_CHUNK_SIZE_WORDS as a whole.
C3_LowerBound ==
    \A j \in 1..Len(chunks) :
        \/ chunks[j].word_count >= 100
        \/ Len(Split(text)) < 100 /\ Len(chunks) = 1

\* C4: sentences are never split.  When create_chunks has returned, every
\* sentence of the section lies whole, its words next to each other, inside
\* one emitted chunk; this includes a sentence longer than
\* MAX_CHUNK_SIZE_WORDS.
C4_SentencesWhole ==
    cpc = "done" =>
        \A i \in 1..Len(sentences) :
            \E j \in 1..Len(chunks) :
                Contains(Split(chunks[j].text), sentences[i])

\* a returned run that closed a chunk before a sentence longer than the
\* maximum, which then sits in an oversized chunk
C4_Witness ==
    /\ cpc = "done"
    /\ Len(chunks) >= 2
    /\ \E i \in 2..Len(sentences) :
          /\ Len(sentences[i]) > 1000
          /\ \E j \in 1..Len(chunks) :
                /\ chunks[j].word_count > 1000
                /\ Contains(Split(chunks[j].text), sentences[i])

\* C5: short section.  A non-empty section of fewer than
\* MIN_CHUNK_SIZE_WORDS words yields exactly one chunk: the section text as
\* it is, with the word count of the section.
C5_ShortSection ==
    (cpc = "done" /\ Len(Split(text)) < 100) =>
        /\ Len(chunks) = 1
        /\ chunks[1].text = text
        /\ chunks[1].word_count = Len(Split(text))

\* a returned run on a short section of several sentences whose text has a
\* gap of more than one blank
C5_Witness ==
    /\ cpc = "done"
    /\ Len(Split(text)) < 100
    /\ Len(sentences) >= 2
    /\ text.wide # {}
    /\ Len(chunks) = 1

\* the step is an iteration of the loop of line 269
LoopStep == cpc = "loop" /\ si <= Len(sentences) /\ si' = si + 1

\* the step appends a chunk before the end of the text
ClosesChunk == LoopStep /\ Len(chunks') = Len(chunks) + 1

\* the sentence of the step fits in the buffer
Fits == current_word_count + Len(sentences[si]) <= 1000

\* C22: greedy close rule.  Inside a section, create_chunks closes a chunk
\* before the end of the text only when the buffer is non-empty and buffer
\* word count + next sentence word count > MAX_CHUNK_SIZE_WORDS; a sentence
\* that fits (sum <= MAX) is always appended to the current buffer, an
\* empty buffer never produces a chunk, and so every non-final chunk could
\* not have taken the next sentence without exceeding MAX.
C22_GreedyClose ==
    /\ [][ClosesChunk => (current_chunk # <<>> /\ ~Fits)]_vars
    /\ [][(LoopStep /\ Fits) =>
             /\ current_chunk' = current_chunk \o sentences[si]
             /\ current_word_count' = current_word_count + Len(sentences[si])
             /\ chunks' = chunks]_vars
    /\ [](\A j \in 1..Len(chunks) : chunks[j].word_count > 0)
    /\ [](\A j \in 1..Len(closedAt) :
             chunks[j].word_count + Len(sentences[closedAt[j]]) > 1000)

\* a buffer of exactly the maximum took a sentence that fitted, and was
\* closed by the next one
C22_Witness ==
    /\ Len(closedAt) >= 1
    /\ chunks[1].word_count = 1000
    /\ closedAt[1] = 3

\* the words the buffer was started with when sentence i closed a chunk
SeedAt(i) ==
    IF \E j \in 1..Len(closedAt) : closedAt[j] = i
    THEN LET j  == CHOOSE j \in 1..Len(closedAt) : closedAt[j] = i
             pw == Split(chunks[j].text)
             k  == (chunks[j].word_count * 15) \div 100
         IN SubSeq(pw, Len(pw) - k + 1, Len(pw))
    ELSE <<>>

\* ws is sentence i, after nothing or after the seed left by the chunk that
\* sentence i closed
SeedAndSentence(ws, i) ==
    /\ i \in 1..Len(sentences)
    /\ ws = SeedAt(i) \o sentences[i]
    /\ (i = 1 \/ \E j \in 1..Len(closedAt) : closedAt[j] = i)

\* C27: shape of an oversized chunk.  In create_chunks the buffer can
\* exceed MAX_CHUNK_SIZE_WORDS only immediately after a buffer was started
\* (empty buffer plus one sentence, or overlap seed plus the triggering
\* sentence); every chunk with word_count > MAX therefore consists of at
\* most one overlap seed followed by exactly one whole sentence, and the
\* next sentence always closes it.
C27_OversizedShape ==
    /\ [](current_word_count > 1000 =>
             SeedAndSentence(current_chunk, si - 1))
    /\ [](\A j \in 1..Len(chunks) :
             chunks[j].word_count > 1000 =>
                \E i \in 1..Len(sentences) :
                    SeedAndSentence(Split(chunks[j].text), i))
    /\ [][(LoopStep /\ current_word_count > 1000) =>
             /\ ClosesChunk
             /\ chunks'[Len(chunks')].text = Join(current_chunk)]_vars

\* an oversized chunk made of an overlap seed and one sentence has been
\* closed by the sentence after it
C27_Witness ==
    \E j \in 1..Len(closedAt) :
        /\ j >= 2
        /\ chunks[j].word_count > 1000
        /\ closedAt[j] = closedAt[j - 1] + 1
        /\ SeedAt(closedAt[j - 1]) # <<>>

\* C26: no content is lost by chunking.  With the default constants
\* (MIN=100, MAX=1000, overlap 0.15), for every non-empty section text
\* create_chunks emits at least one chunk and every sentence of the section
\* is contained in at least one emitted chunk; the final buffer is never
\* discarded by the MIN_CHUNK_SIZE_WORDS test.
C26_NoContentLost ==
    (cpc = "done" /\ Split(text) # <<>>) =>
        /\ Len(chunks) >= 1
        /\ Len(chunks) = Len(closedAt) + 1
        /\ Split(chunks[Len(chunks)].text) = current_chunk
        /\ \A i \in 1..Len(sentences) :
              \E j \in 1..Len(chunks) :
                  Contains(Split(chunks[j].text), sentences[i])

\* a returned run whose final buffer is an overlap seed and a sentence of
\* three words, in a section of more than MIN_CHUNK_SIZE_WORDS words
C26_Witness ==
    /\ cpc = "done"
    /\ Len(closedAt) >= 1
    /\ closedAt[Len(closedAt)] = Len(sentences)
    /\ Len(sentences[Len(sentences)]) = 3
    /\ chunks[Len(chunks)].word_count >= 100

\* ------------------------------------- create_chunks on a long section
\* sections made of sentences of 50 words: 20 sentences fill one chunk to
\* the maximum, 21 close it once, 50 are a section of 2500 words
LongSections == {[i \in 1..n |-> 50] : n \in {20, 21, 50}}

InitLongSection ==
    /\ section_name = "Item 7 - MD&A"
    /\ sentences \in {SentencesOf(l) : l \in LongSections}
    /\ text \in TextsOf(sentences)
    /\ si = 1
    /\ current_chunk = <<>>
    /\ current_word_count = 0
    /\ chunks = <<>>
    /\ closedAt = <<>>
    /\ cpc = "loop"
    /\ IdleSections
    /\ IdlePipeline
    /\ IdleClean
    /\ IdleEmbed
    /\ IdleRate
    /\ IdleRequest
    /\ IdleDay
    /\ IdlePool

SpecLongSection == InitLongSection /\ [][NextChunks]_vars

\* the section of the run has 2500 words in sentences of 50 words
Is2500In50s ==
    /\ Len(Split(text)) = 2500
    /\ \A i \in 1..Len(sentences) : Len(sentences[i]) = 50

\* the first words of chunk j + 1 are the last words of chunk j, 15 percent
\* of the word count of chunk j
OverlapHolds(j) ==
    LET pw == Split(chunks[j].text)
        cw == Split(chunks[j + 1].text)
        k  == (chunks[j].word_count * 15) \div 100
    IN /\ k > 0
       /\ Len(cw) >= k
       /\ SubSeq(cw, 1, k) = SubSeq(pw, Len(pw) - k + 1, Len(pw))

\* C19: scenario.  A section of exactly 2500 words made of 50-word
\* sentences, with MAX=1000, MIN=100 and overlap 0.15, is chunked by
\* create_chunks into exactly 3 chunks, each of at most 1000 words, and the
\* overlap relation holds between chunks 1-2 and 2-3.
C19_LongSection ==
    (cpc = "done" /\ Is2500In50s) =>
        /\ Len(chunks) = 3
        /\ \A j \in 1..3 :
              /\ chunks[j].word_count <= 1000
              /\ Len(Split(chunks[j].text)) = chunks[j].word_count
        /\ OverlapHolds(1)
        /\ OverlapHolds(2)

\* create_chunks has returned the chunks of the section of 2500 words: two
\* of 1000 words and one of 800
C19_Witness ==
    /\ cpc = "done"
    /\ Is2500In50s
    /\ <<chunks[1].word_count, chunks[2].word_count, chunks[3].word_count>>
          = <<1000, 1000, 800>>

(***************************************************************************)
(* Filing texts.  extract_sections and clean_section_text look at the      *)
(* characters of a text through regular expressions.  A filing text is a   *)
(* sequence of tokens [k |-> kind, n |-> width in characters]; every token *)
(* is a fixed string that the regular expressions match as a whole or not  *)
(* at all:                                                                 *)
(*   "H1"   ITEM 1 BUSINESS          "H1A"  ITEM 1A RISK FACTORS           *)
(*   "H1P"  ITEM 1. BUSINESS         "H1AP" ITEM 1A. RISK FACTORS          *)
(*   "H2"   ITEM 2 PROPERTIES        "SIG"  SIGNATURES                     *)
(*   "EXH"  EXHIBIT INDEX            "I15"  ITEM 15.                       *)
(*   "NL"   a line feed              "SP"   a blank                        *)
(*   "TOC"  Table of Contents        "PG"   Page                           *)
(*   "D"    a digit                  "DASH" a dash or an underscore        *)
(*   "X"    a run of n letters that occur in no pattern                    *)
(*   "S"    a sentence of three-letter words separated by single blanks,   *)
(*          the last word followed by a period                             *)
(* Offsets are character offsets, as in the code.                          *)
(***************************************************************************)
HARD_CAP == 500000
MIN_SECTION_CHARS == 50

Min(a, b) == IF a < b THEN a ELSE b
Max(a, b) == IF a > b THEN a ELSE b

KindWidth(k) ==
    CASE k = "H1"  -> 15 [] k = "H1A" -> 20 [] k = "H2"  -> 17
      [] k = "H1P" -> 16 [] k = "H1AP" -> 21
      [] k = "SIG" -> 10 [] k = "EXH" -> 13 [] k = "I15" -> 8
      [] k = "TOC" -> 17 [] k = "PG"  -> 4
      [] OTHER -> 1

Tok(k) == [k |-> k, n |-> KindWidth(k)]
Letters(n) == [k |-> "X", n |-> n]

\* a sentence of n words: three letters and a blank or the period each
Sent(n) == [k |-> "S", n |-> 4 * n]

\* the rules of SECTION_PATTERNS, in the order of the list (its first rules)
SECTION_PATTERNS ==
    << [pattern |-> "H1",  name |-> "Item 1 - Business"],
       [pattern |-> "H1A", name |-> "Item 1A - Risk Factors"],
       [pattern |-> "H2",  name |-> "Item 2 - Properties"] >>

\* len(text)
RECURSIVE TLen(_)
TLen(t) == IF t = <<>> THEN 0 ELSE Head(t).n + TLen(Tail(t))

\* the offset of the first character of token i
Offset(t, i) == TLen(SubSeq(t, 1, i - 1))

\* text[a:b]
RECURSIVE Slice(_, _, _)
Slice(t, a, b) ==
    IF t = <<>> \/ b <= 0 THEN <<>>
    ELSE LET h  == Head(t)
             lo == Max(a, 0)
             hi == Min(b, h.n)
         IN (IF lo < hi THEN <<[k |-> h.k, n |-> hi - lo]>> ELSE <<>>)
            \o Slice(Tail(t), a - h.n, b - h.n)

\* does the rule match the string of a token: every rule allows a period
\* after the number of the item
Matches(pat, k) ==
    \/ k = pat
    \/ pat = "H1" /\ k = "H1P"
    \/ pat = "H1A" /\ k = "H1AP"

\* [m.start() for m in re.finditer(pattern, text)], from token i on
RECURSIVE MatchStarts(_, _, _)
MatchStarts(t, pat, i) ==
    IF i > Len(t) THEN <<>>
    ELSE (IF Matches(pat, t[i].k) THEN <<Offset(t, i)>> ELSE <<>>)
         \o MatchStarts(t, pat, i + 1)

\* variant of PickMatch: the first match
PickMatchMutFirst(matches) == matches[1]

\* lines 207-210: matches[-1].start()
PickMatch(matches) == matches[Len(matches)]

\* lines 204-211: the loop over SECTION_PATTERNS, from rule r on
RECURSIVE FindSections(_, _)
FindSections(t, r) ==
    IF r > Len(SECTION_PATTERNS) THEN <<>>
    ELSE LET matches == MatchStarts(t, SECTION_PATTERNS[r].pattern, 1)
         IN (IF matches # <<>>
             THEN <<[start |-> PickMatch(matches),
                     name  |-> SECTION_PATTERNS[r].name]>>
             ELSE <<>>)
            \o FindSections(t, r + 1)

\* list.sort(key=lambda x: x[0]): stable, ascending
RECURSIVE Insert(_, _)
Insert(sorted, x) ==
    IF sorted = <<>> THEN <<x>>
    ELSE IF x.start < Head(sorted).start THEN <<x>> \o sorted
    ELSE <<Head(sorted)>> \o Insert(Tail(sorted), x)

RECURSIVE SortByStart(_)
SortByStart(fs) ==
    IF fs = <<>> THEN <<>>
    ELSE Insert(SortByStart(SubSeq(fs, 1, Len(fs) - 1)), fs[Len(fs)])

\* variant of FoundSections: the list is left in the order of the rules
FoundSectionsMutNoSort(t) == FindSections(t, 1)

\* lines 203-214
FoundSections(t) == SortByStart(FindSections(t, 1))

\* is token j of the text s the start of a match of
\* (SIGNATURES|EXHIBIT\s+INDEX|^ITEM\s+15\.) under re.MULTILINE
IsEndMarker(s, j) ==
    \/ s[j].k \in {"SIG", "EXH"}
    \/ s[j].k = "I15" /\ (j = 1 \/ s[j - 1].k = "NL")

\* re.search(...).start() in s, or -1 for None
EndMatch(s) ==
    LET hits == {j \in 1..Len(s) : IsEndMarker(s, j)}
    IN IF hits = {} THEN -1
       ELSE Offset(s, CHOOSE j \in hits : \A h \in hits : j <= h)

\* variant of SectionEnd: the offset of the marker inside text[start:] is
\* taken as an offset of the text
SectionEndMutRelative(t, found, i) ==
    IF i < Len(found) THEN found[i + 1].start
    ELSE LET m == EndMatch(Slice(t, found[i].start, TLen(t)))
         IN IF m # -1 THEN m ELSE Min(found[i].start + HARD_CAP, TLen(t))

\* lines 218-227: the end offset of found section i
SectionEnd(t, found, i) ==
    IF i < Len(found) THEN found[i + 1].start
    ELSE LET start == found[i].start
             end_match == EndMatch(Slice(t, start, TLen(t)))
         IN IF end_match # -1
            THEN start + end_match
            ELSE Min(start + HARD_CAP, TLen(t))

IsSpace(tk) == tk.k \in {"SP", "NL"}

\* str.strip()
RECURSIVE LStrip(_)
LStrip(s) == IF s # <<>> /\ IsSpace(Head(s)) THEN LStrip(Tail(s)) ELSE s

RECURSIVE RStrip(_)
RStrip(s) ==
    IF s # <<>> /\ IsSpace(s[Len(s)]) THEN RStrip(SubSeq(s, 1, Len(s) - 1))
    ELSE s

Strip(s) == RStrip(LStrip(s))

\* re.sub(r'\s+', ' ', text)
RECURSIVE CollapseSpace(_)
CollapseSpace(s) ==
    IF s = <<>> THEN <<>>
    ELSE IF IsSpace(Head(s))
    THEN <<Tok("SP")>> \o CollapseSpace(LStrip(s))
    ELSE <<Head(s)>> \o CollapseSpace(Tail(s))

\* re.sub(r'Table of Contents', '', text, flags=re.IGNORECASE)
RemoveToc(s) == SelectSeq(s, LAMBDA tk : tk.k # "TOC")

\* the text after the leading digits of s
RECURSIVE DropDigits(_)
DropDigits(s) ==
    IF s # <<>> /\ Head(s).k = "D" THEN DropDigits(Tail(s)) ELSE s

\* re.sub(r'Page \d+', '', text)
RECURSIVE RemovePage(_)
RemovePage(s) ==
    IF s = <<>> THEN <<>>
    ELSE IF /\ Len(s) >= 3
            /\ s[1].k = "PG" /\ s[2].k = "SP" /\ s[3].k = "D"
    THEN RemovePage(DropDigits(Tail(Tail(s))))
    ELSE <<Head(s)>> \o RemovePage(Tail(s))

\* the text before the trailing digits of s
RECURSIVE DropTrailingDigits(_)
DropTrailingDigits(s) ==
    IF s # <<>> /\ s[Len(s)].k = "D"
    THEN DropTrailingDigits(SubSeq(s, 1, Len(s) - 1))
    ELSE s

\* re.sub(r'\d+\s*$', '', text, flags=re.MULTILINE) on a text without line
\* feeds (line 243 has replaced them): a run of digits that ends the text,
\* with the blanks after it
RemoveTrailingDigits(s) ==
    LET r == RStrip(s)
    IN IF r # <<>> /\ r[Len(r)].k = "D" THEN DropTrailingDigits(r) ELSE s

\* the length of the run of dashes that starts s
RECURSIVE DashRun(_)
DashRun(s) ==
    IF s # <<>> /\ Head(s).k = "DASH" THEN 1 + DashRun(Tail(s)) ELSE 0

\* re.sub(r'[-_]{3,}', '', text)
RECURSIVE RemoveDashes(_)
RemoveDashes(s) ==
    IF s = <<>> THEN <<>>
    ELSE LET r == DashRun(s)
         IN IF r >= 3 THEN RemoveDashes(SubSeq(s, r + 1, Len(s)))
            ELSE IF r > 0 THEN SubSeq(s, 1, r) \o RemoveDashes(SubSeq(s, r + 1, Len(s)))
            ELSE <<Head(s)>> \o RemoveDashes(Tail(s))

\* lines 240-253
CleanSectionText(s) ==
    Strip(RemoveDashes(RemoveTrailingDigits(RemovePage(RemoveToc(
        CollapseSpace(s))))))

\* the tokens of the texts of the runs of clean_section_text
CleanTokens ==
    {Tok("SP"), Tok("NL"), Tok("TOC"), Tok("PG"), Tok("D"), Tok("DASH"),
     Letters(1)}

CleanTexts == UNION {[1..n -> CleanTokens] : n \in 0..MaxCleanTokens}

InitClean ==
    /\ ctext \in CleanTexts
    /\ cleaned = <<>>
    /\ recleaned = <<>>
    /\ kpc = "call"
    /\ IdleChunks
    /\ IdleSections
    /\ IdlePipeline
    /\ IdleEmbed
    /\ IdleRate
    /\ IdleRequest
    /\ IdleDay
    /\ IdlePool

\* clean_section_text(text)
CL_Clean ==
    /\ kpc = "call"
    /\ cleaned' = CleanSectionText(ctext)
    /\ kpc' = "cleaned"
    /\ UNCHANGED <<ctext, recleaned>>
    /\ UNCHANGED <<chunkVars, sectVars, pipeVars, embedVars, rateVars, reqVars, dayVars, poolVars>>

\* clean_section_text of the text the first call returned
CL_Reclean ==
    /\ kpc = "cleaned"
    /\ recleaned' = CleanSectionText(cleaned)
    /\ kpc' = "recleaned"
    /\ UNCHANGED <<ctext, cleaned>>
    /\ UNCHANGED <<chunkVars, sectVars, pipeVars, embedVars, rateVars, reqVars, dayVars, poolVars>>

NextClean == CL_Clean \/ CL_Reclean

SpecClean == InitClean /\ [][NextClean]_vars

\* C12: clean_section_text is idempotent.  For every text t,
\* clean_section_text(clean_section_text(t)) = clean_section_text(t).
C12_Idempotent == kpc = "recleaned" => recleaned = cleaned

\* variant of KeepSection: a text of exactly the threshold is kept
KeepSectionMutAtLeast(section_text) == TLen(section_text) >= MIN_SECTION_CHARS

\* line 234
KeepSection(section_text) == TLen(section_text) > MIN_SECTION_CHARS

\* lines 217-229: the raw span of each found section, in the order of the loop
RawSpans(t, found) ==
    [i \in 1..Len(found) |->
        [name  |-> found[i].name,
         start |-> found[i].start,
         end   |-> SectionEnd(t, found, i)]]

\* lines 229-235: the sections dictionary, in insertion order (every rule
\* has its own name, so no entry is written twice)
RECURSIVE SectionsDict(_, _, _)
SectionsDict(t, sp, i) ==
    IF i > Len(sp) THEN <<>>
    ELSE LET section_text ==
                 CleanSectionText(Strip(Slice(t, sp[i].start, sp[i].end)))
         IN (IF KeepSection(section_text)
             THEN <<[name |-> sp[i].name, text |-> section_text]>>
             ELSE <<>>)
            \o SectionsDict(t, sp, i + 1)

\* extract_sections(text)
ExtractSections(t) == SectionsDict(t, RawSpans(t, FoundSections(t)), 1)

\* the tokens of the filing texts of the runs of extract_sections
SectTokens ==
    {Tok("H1"), Tok("H1A"), Tok("H2"), Tok("SIG"), Tok("EXH"), Tok("I15"),
     Tok("NL"), Tok("SP"), Tok("D"),
     Letters(1), Letters(35), Letters(HARD_CAP)}

FilingTexts == UNION {[1..n -> SectTokens] : n \in 0..MaxTokens}

InitSections ==
    /\ IdleChunks
    /\ IdlePipeline
    /\ IdleClean
    /\ IdleEmbed
    /\ IdleRate
    /\ IdleRequest
    /\ IdleDay
    /\ IdlePool
    /\ ftext \in FilingTexts
    /\ found_sections = <<>>
    /\ spans = <<>>
    /\ sections = <<>>
    /\ epc = "find"

\* lines 203-214: find the last match of every rule, sort by position
ES_Find ==
    /\ epc = "find"
    /\ found_sections' = FoundSections(ftext)
    /\ epc' = "extract"
    /\ UNCHANGED <<ftext, spans, sections>>
    /\ UNCHANGED <<chunkVars, pipeVars, cleanVars, embedVars, rateVars, reqVars, dayVars, poolVars>>

\* lines 216-238: cut, clean and keep the sections, and return them
ES_Extract ==
    /\ epc = "extract"
    /\ spans' = RawSpans(ftext, found_sections)
    /\ sections' = SectionsDict(ftext, RawSpans(ftext, found_sections), 1)
    /\ epc' = "done"
    /\ UNCHANGED <<ftext, found_sections>>
    /\ UNCHANGED <<chunkVars, pipeVars, cleanVars, embedVars, rateVars, reqVars, dayVars, poolVars>>

NextSections == ES_Find \/ ES_Extract

SpecSections == InitSections /\ [][NextSections]_vars

\* ---------------------------------------------- claims on extract_sections
\* the raw text of span i, stripped and cleaned
CleanedSpan(i) ==
    CleanSectionText(Strip(Slice(ftext, spans[i].start, spans[i].end)))

SectionNames == {sections[i].name : i \in 1..Len(sections)}

\* the token positions of the matches of a pattern
MatchPositions(pat) == {i \in 1..Len(ftext) : ftext[i].k = pat}

\* C6: section spans are contiguous.  Taken in ascending start order, the
\* raw spans [start, end) of a filing have each section's end equal to the
\* next section's start, and no span ends before it starts: no gap and no
\* overlap between the first start and the end of the last section.
C6_SpansContiguous ==
    epc = "done" =>
        \A i \in 1..Len(spans) :
            LET later == {spans[j].start : j \in
                            {j \in 1..Len(spans) : spans[j].start > spans[i].start}}
            IN /\ spans[i].start <= spans[i].end
               /\ later # {} =>
                    spans[i].end = CHOOSE x \in later : \A y \in later : x <= y

\* a filing with three sections whose order in the text is not the order
\* of the rules
C6_Witness ==
    /\ epc = "done"
    /\ Len(spans) = 3
    /\ spans[1].name = "Item 2 - Properties"
    /\ spans[3].name = "Item 1 - Business"

\* C7: last-match rule.  A rule that matches the text yields exactly one
\* found section, which starts where the last match of its pattern starts;
\* a rule without a match yields none; the found sections and the returned
\* sections are in ascending order of start offset.
C7_LastMatch ==
    epc \in {"extract", "done"} =>
        /\ \A r \in 1..Len(SECTION_PATTERNS) :
              LET pos  == MatchPositions(SECTION_PATTERNS[r].pattern)
                  mine == {j \in 1..Len(found_sections) :
                              found_sections[j].name = SECTION_PATTERNS[r].name}
              IN IF pos = {} THEN mine = {}
                 ELSE /\ Cardinality(mine) = 1
                      /\ \A j \in mine :
                            found_sections[j].start =
                                Offset(ftext, CHOOSE p \in pos : \A q \in pos : q <= p)
        /\ \A j \in 1..(Len(found_sections) - 1) :
              found_sections[j].start < found_sections[j + 1].start
        /\ \A a, b \in 1..Len(sections) :
              a < b =>
                 \E i, j \in 1..Len(found_sections) :
                    /\ i < j
                    /\ found_sections[i].name = sections[a].name
                    /\ found_sections[j].name = sections[b].name

\* a returned run on a text where a heading occurs twice with the heading
\* of an earlier rule between the two, and a section is returned
C7_Witness ==
    /\ epc = "done"
    /\ \E i, j, k \in 1..Len(ftext) :
          /\ i < j /\ j < k
          /\ ftext[i].k = "H1A" /\ ftext[j].k = "H1" /\ ftext[k].k = "H1A"
    /\ Len(found_sections) = 2
    /\ sections # <<>>

\* the span with the greatest start offset
LastSpan == CHOOSE sp \in Range(spans) : \A o \in Range(spans) : o.start <= sp.start

\* the offsets of the trailing markers at or after offset a
MarkersFrom(a) ==
    {Offset(ftext, j) : j \in
        {j \in 1..Len(ftext) : Offset(ftext, j) >= a /\ IsEndMarker(ftext, j)}}

\* C8: end of the last section.  The section with the greatest start ends
\* at the first trailing marker (SIGNATURES, EXHIBIT INDEX, a line starting
\* ITEM 15.) at or after its start when there is one, otherwise at
\* min(start + 500000, len(text)); and start <= end <= len(text).
C8_LastSectionEnd ==
    (epc = "done" /\ spans # <<>>) =>
        LET m == MarkersFrom(LastSpan.start) IN
        /\ LastSpan.end =
              IF m # {} THEN CHOOSE x \in m : \A y \in m : x <= y
              ELSE IF LastSpan.start + 500000 < TLen(ftext)
                   THEN LastSpan.start + 500000
                   ELSE TLen(ftext)
        /\ LastSpan.start <= LastSpan.end
        /\ LastSpan.end <= TLen(ftext)

\* a returned run whose last section does not start the text and ends at a
\* marker that is not the end of the text
C8_Witness ==
    /\ epc = "done"
    /\ spans # <<>>
    /\ LastSpan.start > 0
    /\ LastSpan.end \in MarkersFrom(LastSpan.start)
    /\ LastSpan.end + 10 < TLen(ftext)

\* C9 as claimed: a discovered section is dropped exactly when its cleaned
\* text is shorter than 50 characters.
C9_DroppedBelow50 ==
    epc = "done" =>
        \A i \in 1..Len(spans) :
            spans[i].name \in SectionNames <=> TLen(CleanedSpan(i)) >= 50

\* C9 as amended: a discovered section is dropped exactly when its cleaned
\* text has 50 characters or fewer; every section whose cleaned text has
\* more than 50 characters is returned, with that cleaned text.
C9_DroppedUpTo50 ==
    epc = "done" =>
        \A i \in 1..Len(spans) :
            /\ spans[i].name \in SectionNames <=> TLen(CleanedSpan(i)) > 50
            /\ TLen(CleanedSpan(i)) > 50 =>
                  \E j \in 1..Len(sections) :
                     /\ sections[j].name = spans[i].name
                     /\ sections[j].text = CleanedSpan(i)

\* a returned run with a section of exactly 50 cleaned characters, which is
\* dropped, and another section, which is returned
C9_Witness ==
    /\ epc = "done"
    /\ \E i \in 1..Len(spans) :
          TLen(CleanedSpan(i)) = 50 /\ spans[i].name \notin SectionNames
    /\ sections # <<>>

(***************************************************************************)
(* process_10k and process_multiple_years.                                 *)
(***************************************************************************)
\* the blanks inside the string of a token
InnerBlanks(k) ==
    CASE k \in {"H1", "H1P", "H2", "TOC"} -> 2
      [] k \in {"H1A", "H1AP"} -> 3
      [] k \in {"EXH", "I15"} -> 1
      [] OTHER -> 0

\* the blanks inside a token
TokenBlanks(tk) ==
    IF tk.k = "S" THEN Max(tk.n \div 4, 1) - 1 ELSE InnerBlanks(tk.k)

\* len(text.split()) of a token text; inWord: the text before s ends inside
\* a word
RECURSIVE WordCount(_, _)
WordCount(s, inWord) ==
    IF s = <<>> THEN 0
    ELSE IF IsSpace(Head(s)) THEN WordCount(Tail(s), FALSE)
    ELSE (IF inWord THEN 0 ELSE 1) + TokenBlanks(Head(s))
         + WordCount(Tail(s), TRUE)

\* the words of a token text that are followed by more than one blank; w:
\* the words that start before s
RECURSIVE WideGaps(_, _, _)
WideGaps(s, w, inWord) ==
    IF s = <<>> THEN {}
    ELSE IF IsSpace(Head(s))
    THEN (IF Len(s) >= 2 /\ IsSpace(s[2]) /\ w > 0 THEN {w} ELSE {})
         \cup WideGaps(Tail(s), w, FALSE)
    ELSE WideGaps(Tail(s),
                  w + (IF inWord THEN 0 ELSE 1) + TokenBlanks(Head(s)), TRUE)

\* the words of a token text that end a sentence: the last word of an "S"
\* token that is followed by white space, and the number of the item in a
\* heading that has a period after it; w: the words that start before s
RECURSIVE SentenceEnds(_, _, _)
SentenceEnds(s, w, inWord) ==
    IF s = <<>> THEN {}
    ELSE IF IsSpace(Head(s)) THEN SentenceEnds(Tail(s), w, FALSE)
    ELSE LET first == w + (IF inWord THEN 0 ELSE 1)
             last  == first + TokenBlanks(Head(s))
         IN (IF Head(s).k = "S" /\ Len(s) >= 2 /\ IsSpace(s[2])
             THEN {last} ELSE {})
            \cup (IF Head(s).k \in {"H1P", "H1AP"} THEN {first + 1} ELSE {})
            \cup SentenceEnds(Tail(s), last, TRUE)

\* a section text as create_chunks sees it: its words, the wide gaps, and
\* the words that end a sentence
WordText(s) ==
    [words |-> [j \in 1..WordCount(s, FALSE) |-> j],
     wide  |-> WideGaps(s, 0, FALSE),
     ends  |-> SentenceEnds(s, 0, FALSE)]

\* the words ws[from..] cut after every word of ends
RECURSIVE CutSentences(_, _, _)
CutSentences(ws, ends, from) ==
    IF from > Len(ws) THEN <<>>
    ELSE LET later == {x \in ends : x >= from /\ x < Len(ws)}
             stop  == IF later = {} THEN Len(ws)
                      ELSE CHOOSE x \in later : \A y \in later : x <= y
         IN <<SubSeq(ws, from, stop)>> \o CutSentences(ws, ends, stop + 1)

\* sent_tokenize(text) on a token text: a sentence ends at a period that is
\* followed by white space; a text without one is a single sentence
SentTokenize(t) == CutSentences(Split(t), t.ends, 1)

\* lines 269-296: the loop of create_chunks from sentence i on, with the
\* chunks emitted so far
RECURSIVE ChunkLoop(_, _, _, _, _, _)
ChunkLoop(sents, i, cur, cnt, out, name) ==
    IF i > Len(sents) THEN [cur |-> cur, cnt |-> cnt, out |-> out]
    ELSE IF MustClose(cur, cnt, sents[i])
    THEN ChunkLoop(sents, i + 1,
                   NextBuffer(cur, cnt, sents[i]), NextCount(cur, cnt, sents[i]),
                   Append(out, Chunk(Join(cur), cnt, name)), name)
    ELSE ChunkLoop(sents, i + 1, cur \o sents[i], cnt + Len(sents[i]), out, name)

\* create_chunks(text, section_name)
CreateChunks(t, name) ==
    LET l == ChunkLoop(SentTokenize(t), 1, <<>>, 0, <<>>, name)
    IN l.out \o FinalChunks(t, l.cur, l.cnt, name)

\* lines 343-348: the fields of the metadata that number the chunk
Metadata(chunk, chunk_index, total_chunks, filing) ==
    [chunk_id     |-> <<"MSFT", filing, chunk_index>>,
     chunk_index  |-> chunk_index,
     total_chunks |-> total_chunks,
     section      |-> chunk.section,
     word_count   |-> chunk.word_count]

\* lines 389-408: the chunks of the sections from section i on, numbered
\* from chunk_index on
RECURSIVE SectionChunks(_, _, _, _)
SectionChunks(secs, i, chunk_index, filing) ==
    IF i > Len(secs) THEN <<>>
    ELSE LET cs == CreateChunks(WordText(secs[i].text), secs[i].name)
             recs == [j \in 1..Len(cs) |->
                        [text     |-> cs[j].text,
                         metadata |-> Metadata(cs[j], chunk_index + j - 1, 0, filing)]]
         IN recs \o SectionChunks(secs, i + 1, chunk_index + Len(cs), filing)

\* variant of AllChunks: total_chunks is left as it was appended
AllChunksMutNoBackfill(secs, filing) == SectionChunks(secs, 1, 0, filing)

\* lines 389-413: all_chunks, with total_chunks filled in
AllChunks(secs, filing) ==
    LET all == SectionChunks(secs, 1, 0, filing)
    IN [j \in 1..Len(all) |->
           [all[j] EXCEPT !.metadata.total_chunks = Len(all)]]

\* variant of NoSections: the test is left out
NoSectionsMutNever(secs) == FALSE

\* line 382: if not sections
NoSections(secs) == secs = <<>>

\* the output files of process_10k, in the order they are written
OUTPUTS == <<"json", "csv", "summary">>

\* k sentences of n words each, with a blank between them
RECURSIVE Sents(_, _)
Sents(k, n) ==
    IF k = 1 THEN <<Sent(n)>> ELSE Sents(k - 1, n) \o <<Tok("SP"), Sent(n)>>

\* filing texts made of the heading ITEM 1. BUSINESS, 600 words, the
\* heading ITEM 1A. RISK FACTORS, 50 words, and SIGNATURES, each on a line
\* of its own; the 600 words are one sentence or 12 sentences
TwoItemTexts ==
    { <<Tok("H1P"), Tok("NL")>> \o body \o
      <<Tok("NL"), Tok("H1AP"), Tok("NL"), Sent(50), Tok("NL"), Tok("SIG")>>
      : body \in {<<Sent(600)>>, Sents(12, 50)} }

\* the filing texts of the runs of process_multiple_years: no heading; a
\* heading whose section is too short to be kept; one section; two
\* sections; two sections of which the first has two sentences of 900
\* words and the second is out of the order of the rules; the texts of
\* TwoItemTexts
PipeTexts ==
    { <<Letters(35), Tok("SP"), Tok("SIG")>>,
      <<Tok("H1"), Letters(35)>>,
      <<Tok("H2"), Tok("SP"), Letters(35), Tok("D")>>,
      <<Tok("H1"), Tok("SP"), Letters(35), Tok("NL"),
        Tok("H1A"), Tok("SP"), Tok("SP"), Letters(35), Tok("NL"), Tok("SIG")>>,
      <<Tok("H2"), Tok("NL"), Sent(900), Tok("SP"), Sent(900), Tok("NL"),
        Tok("H1"), Tok("SP"), Sent(50), Tok("NL"), Tok("SIG")>> }
    \cup TwoItemTexts

InitPipeline ==
    /\ IdleChunks
    /\ IdleSections
    /\ IdleClean
    /\ IdleEmbed
    /\ IdleRate
    /\ IdleRequest
    /\ IdleDay
    /\ IdlePool
    /\ filings \in UNION {[1..n -> PipeTexts] : n \in 0..MaxFilings}
    /\ fi = 1
    /\ results = <<>>
    /\ ppc = "start"
    /\ text_content = <<>>
    /\ p_sections = <<>>
    /\ all_chunks = <<>>
    /\ success = FALSE
    /\ files = {}
    /\ downloaded = {}
    /\ zero_sections = {}
    /\ chunked = {}

\* process_multiple_years, lines 79-94: the filings found, or the return
\* when there is none
PM_Start ==
    /\ ppc = "start"
    /\ ppc' = IF filings = <<>> THEN "returned" ELSE "loop"
    /\ UNCHANGED <<filings, fi, results, text_content, p_sections, all_chunks,
                   success, files, downloaded, zero_sections, chunked>>
    /\ UNCHANGED <<chunkVars, sectVars, cleanVars, embedVars, rateVars, reqVars, dayVars, poolVars>>

\* process_multiple_years, lines 96-116: the next filing, up to the call of
\* process_10k
PM_Begin ==
    /\ ppc = "loop"
    /\ fi <= Len(filings)
    /\ ppc' = "download"
    /\ text_content' = <<>>
    /\ p_sections' = <<>>
    /\ all_chunks' = <<>>
    /\ UNCHANGED <<filings, fi, results, success, files, downloaded,
                   zero_sections, chunked>>
    /\ UNCHANGED <<chunkVars, sectVars, cleanVars, embedVars, rateVars, reqVars, dayVars, poolVars>>

\* process_10k, lines 364-376: the download gives the text or nothing
P_Download ==
    /\ ppc = "download"
    /\ \E ok \in BOOLEAN :
          IF ok
          THEN /\ text_content' = filings[fi]
               /\ downloaded' = downloaded \cup {fi}
               /\ ppc' = "extract"
               /\ UNCHANGED success
          ELSE /\ success' = FALSE
               /\ ppc' = "record"
               /\ UNCHANGED <<text_content, downloaded>>
    /\ UNCHANGED <<filings, fi, results, p_sections, all_chunks, files,
                   zero_sections, chunked>>
    /\ UNCHANGED <<chunkVars, sectVars, cleanVars, embedVars, rateVars, reqVars, dayVars, poolVars>>

\* process_10k, lines 378-386
P_Extract ==
    /\ ppc = "extract"
    /\ p_sections' = ExtractSections(text_content)
    /\ zero_sections' = IF ExtractSections(text_content) = <<>>
                        THEN zero_sections \cup {fi} ELSE zero_sections
    /\ IF NoSections(ExtractSections(text_content))
       THEN success' = FALSE /\ ppc' = "record"
       ELSE ppc' = "chunk" /\ UNCHANGED success
    /\ UNCHANGED <<filings, fi, results, text_content, all_chunks, files,
                   downloaded, chunked>>
    /\ UNCHANGED <<chunkVars, sectVars, cleanVars, embedVars, rateVars, reqVars, dayVars, poolVars>>

\* process_10k, lines 388-415
P_Chunk ==
    /\ ppc = "chunk"
    /\ all_chunks' = AllChunks(p_sections, fi)
    /\ chunked' = chunked \cup {fi}
    /\ ppc' = "save"
    /\ UNCHANGED <<filings, fi, results, text_content, p_sections, success,
                   files, downloaded, zero_sections>>
    /\ UNCHANGED <<chunkVars, sectVars, cleanVars, embedVars, rateVars, reqVars, dayVars, poolVars>>

\* process_10k, lines 417-499: the three files are written in turn; a write
\* that raises, or the division by total_chunks of line 490, ends the call
\* in the handler of line 497 with the files written so far
P_Save ==
    /\ ppc = "save"
    /\ \E n \in 0..Len(OUTPUTS) :
          /\ all_chunks = <<>> => n < Len(OUTPUTS)
          /\ files' = files \cup {<<fi, OUTPUTS[k]>> : k \in 1..n}
          /\ success' = (n = Len(OUTPUTS))
    /\ ppc' = "record"
    /\ UNCHANGED <<filings, fi, results, text_content, p_sections, all_chunks,
                   downloaded, zero_sections, chunked>>
    /\ UNCHANGED <<chunkVars, sectVars, cleanVars, embedVars, rateVars, reqVars, dayVars, poolVars>>

\* process_multiple_years, lines 118-152: the result of the filing
PM_Record ==
    /\ ppc = "record"
    /\ results' = Append(results,
                     [filing |-> fi,
                      status |-> IF success THEN "success" ELSE "failed"])
    /\ fi' = fi + 1
    /\ ppc' = "loop"
    /\ UNCHANGED <<filings, text_content, p_sections, all_chunks, success,
                   files, downloaded, zero_sections, chunked>>
    /\ UNCHANGED <<chunkVars, sectVars, cleanVars, embedVars, rateVars, reqVars, dayVars, poolVars>>

\* process_multiple_years, lines 154-195: the summary and the return
PM_Return ==
    /\ ppc = "loop"
    /\ fi > Len(filings)
    /\ ppc' = "returned"
    /\ UNCHANGED <<filings, fi, results, text_content, p_sections, all_chunks,
                   success, files, downloaded, zero_sections, chunked>>
    /\ UNCHANGED <<chunkVars, sectVars, cleanVars, embedVars, rateVars, reqVars, dayVars, poolVars>>

NextPipeline ==
    \/ PM_Start \/ PM_Begin \/ P_Download \/ P_Extract \/ P_Chunk \/ P_Save
    \/ PM_Record \/ PM_Return

SpecPipeline == InitPipeline /\ [][NextPipeline]_vars

\* ------------------------------------------------- claims on the pipeline
FilesOf(i) == {f \in files : f[1] = i}

\* C10: zero sections is a non-fatal skip.  When extract_sections returns
\* no section for a filing, process_10k returns False, create_chunks is not
\* called and no JSON, CSV or summary file is written for that filing;
\* process_multiple_years records the filing as failed, and when it returns
\* it has a result for every filing and has chunked every downloaded filing
\* that has sections.
C10_ZeroSectionsSkip ==
    /\ \A i \in zero_sections :
          /\ i \notin chunked
          /\ FilesOf(i) = {}
          /\ (i = fi /\ ppc = "record") => success = FALSE
          /\ i <= Len(results) =>
                results[i].filing = i /\ results[i].status = "failed"
    /\ (fi \in zero_sections) => ppc \in {"record"}
    /\ ppc = "returned" =>
          /\ Len(results) = Len(filings)
          /\ \A i \in downloaded \ zero_sections : i \in chunked

\* a returned run in which a filing without sections was followed by a
\* filing that was chunked and saved
C10_Witness ==
    /\ ppc = "returned"
    /\ \E i \in zero_sections, j \in chunked :
          /\ i < j
          /\ results[i].status = "failed"
          /\ results[j].status = "success"
          /\ Cardinality(FilesOf(j)) = 3

\* the rule that names a section
PatternOf(name) ==
    (CHOOSE r \in 1..Len(SECTION_PATTERNS) : SECTION_PATTERNS[r].name = name)

\* the start offset of a section of text_content: the last match of its rule
StartOf(name) ==
    PickMatch(MatchStarts(text_content,
                          SECTION_PATTERNS[PatternOf(name)].pattern, 1))

\* the index in p_sections of the section a chunk was cut from
SectionIndex(c) ==
    CHOOSE i \in 1..Len(p_sections) : p_sections[i].name = c.metadata.section

\* C11: chunk numbering.  After process_10k has chunked a filing into N
\* chunks, the chunk_index values are exactly 0..N-1 in emission order
\* (sections in ascending start order, chunks in their order inside a
\* section), chunk_id = ticker_filingdate_chunkindex is unique within the
\* filing, and every chunk's total_chunks equals N.
C11_ChunkNumbering ==
    ppc \in {"save", "record"} /\ fi \in chunked =>
        LET N == Len(all_chunks) IN
        /\ \A j \in 1..N :
              /\ all_chunks[j].metadata.chunk_index = j - 1
              /\ all_chunks[j].metadata.total_chunks = N
              /\ all_chunks[j].metadata.chunk_id = <<"MSFT", fi, j - 1>>
        /\ \A a, b \in 1..N :
              a # b => all_chunks[a].metadata.chunk_id
                          # all_chunks[b].metadata.chunk_id
        /\ \A a, b \in 1..N :
              a < b => SectionIndex(all_chunks[a]) <= SectionIndex(all_chunks[b])
        /\ \A a, b \in 1..Len(p_sections) :
              a < b => StartOf(p_sections[a].name) < StartOf(p_sections[b].name)
        /\ \A i \in 1..Len(p_sections) :
              LET mine == SelectSeq(all_chunks,
                              LAMBDA c : c.metadata.section = p_sections[i].name)
                  cs   == CreateChunks(WordText(p_sections[i].text),
                                       p_sections[i].name)
              IN /\ Len(mine) = Len(cs)
                 /\ \A j \in 1..Len(cs) : mine[j].text = cs[j].text

\* a filing chunked into three chunks: two of its first section, which is
\* the last rule's, and one of its second section
C11_Witness ==
    /\ ppc = "save"
    /\ Len(all_chunks) = 3
    /\ Len(p_sections) = 2
    /\ all_chunks[2].metadata.section = p_sections[1].name
    /\ all_chunks[2].metadata.chunk_index = 1
    /\ all_chunks[3].metadata.section = p_sections[2].name
    /\ p_sections[1].name = "Item 2 - Properties"

\* the offset of SIGNATURES in text_content
SignaturesAt ==
    Offset(text_content,
           CHOOSE i \in 1..Len(text_content) : text_content[i].k = "SIG")

\* process_10k has the sections of a text of TwoItemTexts
TwoItemSections == text_content \in TwoItemTexts /\ ppc \in {"chunk", "save"}

\* C20: scenario.  For a text made of heading 'ITEM 1. BUSINESS', 600
\* words, heading 'ITEM 1A. RISK FACTORS', 50 words, then 'SIGNATURES',
\* extract_sections returns exactly 2 sections ('Item 1 - Business' then
\* 'Item 1A - Risk Factors', the second ending at SIGNATURES), and chunking
\* yields exactly one chunk of about 600 words for the first and exactly
\* one chunk holding all of the second section's words.
C20_TwoItems ==
    /\ TwoItemSections =>
          /\ [i \in 1..Len(p_sections) |-> p_sections[i].name]
                = <<"Item 1 - Business", "Item 1A - Risk Factors">>
          /\ p_sections[2].text =
                CleanSectionText(Strip(Slice(text_content,
                    StartOf("Item 1A - Risk Factors"), SignaturesAt)))
          /\ WordCount(p_sections[2].text, FALSE) = 50 + 4
    /\ (TwoItemSections /\ ppc = "save") =>
          /\ [j \in 1..Len(all_chunks) |-> all_chunks[j].metadata.section]
                = <<"Item 1 - Business", "Item 1A - Risk Factors">>
          /\ all_chunks[1].metadata.word_count \in 600..603
          /\ Len(Split(all_chunks[1].text)) = all_chunks[1].metadata.word_count
          /\ all_chunks[2].text = WordText(p_sections[2].text)
          /\ all_chunks[2].metadata.word_count = 50 + 4

\* process_10k has chunked the text whose 600 words are 12 sentences
C20_Witness ==
    /\ TwoItemSections
    /\ ppc = "save"
    /\ Len(all_chunks) = 2
    /\ Len(SentTokenize(WordText(p_sections[1].text))) = 13

(***************************************************************************)
(* generate_embeddings.py.  A chunk file is given by the number of its     *)
(* chunks and the word count of each of them; chunk j of file f has        *)
(* chunk_index j-1 and the chunk_id process_10k gave it.  The progress      *)
(* dictionary processed_chunks is a set of pairs <<chunk_id, vector>>, and *)
(* the vector the API returns for text p of its call c is named <<c, p>>  *)
(* (call 0 is a run that was interrupted before this one).  Money is an    *)
(* integer number of the units given with each constant.  Reads and        *)
(* writes of the disk are taken to succeed.                                *)
(***************************************************************************)
BATCH_SIZE == 2048
SAVE_INTERVAL == 100
\* COST_PER_1K_TOKENS = 0.00013 dollars, in units of 10^-5 dollars
COST_PER_1K_TOKENS == 13
\* APPROX_TOKENS_PER_WORD = 1.3, in tenths
APPROX_TOKENS_PER_WORD == 13
\* COST_THRESHOLD = 0.10 dollars, in hundredths
COST_THRESHOLD == 10

\* most chunk files of a run of process_all_years
MaxChunkFiles == 1

\* the chunk files of the runs: [n |-> chunks, w |-> words of each chunk]
ChunkFileShapes ==
    {[n |-> 3, w |-> 300], [n |-> 100, w |-> 300], [n |-> 2049, w |-> 300]}

\* the chunks of file 1 that an interrupted run left in the progress file
RestoredSets == {{}, {1}, {0, 2}}

\* input() raised EOFError: there is no terminal
NoInput == "<EOFError>"

\* what input() of line 146 gives
RESPONSES == {"yes", "YES", "no", NoInput}

\* str.lower() on the answers above
Lower(response) == IF response = "YES" THEN "yes" ELSE response

ChunkId(f, chunk_index) == <<"MSFT", f, chunk_index>>

\* data['chunks'] of chunk file f, in the order process_10k wrote them
FileChunks(f) ==
    [j \in 1..chunk_files[f].n |->
        [chunk_id    |-> ChunkId(f, j - 1),
         chunk_index |-> j - 1,
         word_count  |-> chunk_files[f].w]]

\* chunk['embedding'] = embedding
WithEmbedding(chunk, embedding) ==
    [chunk_id    |-> chunk.chunk_id,
     chunk_index |-> chunk.chunk_index,
     word_count  |-> chunk.word_count,
     embedding   |-> embedding]

\* the keys of a dictionary, and d[k]
Keys(d) == {x[1] : x \in d}
Get(d, k) == (CHOOSE x \in d : x[1] = k)[2]

\* load_progress()['processed_chunks']
LoadProgress(file) == IF file.exists THEN file.content ELSE {}

\* lines 123-134: the chunks found in the progress dictionary, with the
\* saved vectors
RestoredChunks(cs, d) ==
    LET keys == Keys(d)
        old  == SelectSeq(cs, LAMBDA c : c.chunk_id \in keys)
    IN [j \in 1..Len(old) |-> WithEmbedding(old[j], Get(d, old[j].chunk_id))]

\* variant of ChunksToProcess: every chunk of the file
ChunksToProcessMutAll(cs, d) == cs

\* lines 123-134: the chunks that are not in the progress dictionary
ChunksToProcess(cs, d) ==
    LET keys == Keys(d)
    IN SelectSeq(cs, LAMBDA c : c.chunk_id \notin keys)

\* sum(chunk['metadata']['word_count'] for chunk in chunks[lo..hi])
RECURSIVE SumWords(_, _, _)
SumWords(cs, lo, hi) ==
    IF lo > hi THEN 0
    ELSE IF lo = hi THEN cs[lo].word_count
    ELSE LET mid == (lo + hi) \div 2
         IN SumWords(cs, lo, mid) + SumWords(cs, mid + 1, hi)

\* estimate_cost(chunks), in units of 10^-9 dollars
EstimateCost(cs) ==
    SumWords(cs, 1, Len(cs)) * APPROX_TOKENS_PER_WORD * COST_PER_1K_TOKENS

\* line 145: estimated_cost > COST_THRESHOLD; the float comparison gives
\* the same answer as the exact one for every word total below 1200000
ExceedsThreshold(cost) == cost > COST_THRESHOLD * 10000000

\* variant of Proceeds: every answer is taken for a confirmation
ProceedsMutAlways(response) == TRUE

\* line 147: the answer lets the run go on
Proceeds(response) == Lower(response) = "yes"

\* line 155: chunks_to_process[i:i + BATCH_SIZE]
Batch(cs, i) == SubSeq(cs, i + 1, Min(i + BATCH_SIZE, Len(cs)))

\* lines 89-100: response.data of a call that succeeds: one vector for each
\* text, in the order of the texts
Embeddings(call, texts) == [p \in 1..Len(texts) |-> <<call, p>>]

\* line 95: response.usage.total_tokens
UsageTokens(batch) ==
    (SumWords(batch, 1, Len(batch)) * APPROX_TOKENS_PER_WORD) \div 10

\* lines 163-165: zip(batch, embeddings), each chunk with its vector
Zip(batch, embeddings) ==
    [p \in 1..Min(Len(batch), Len(embeddings)) |->
        WithEmbedding(batch[p], embeddings[p])]

\* lines 168-169: processed_chunks after the loop over a zipped batch
UpdateProgress(d, zipped) ==
    LET new  == {<<zipped[p].chunk_id, zipped[p].embedding>> :
                    p \in 1..Len(zipped)}
        keys == {zipped[p].chunk_id : p \in 1..Len(zipped)}
    IN {x \in d : x[1] \notin keys} \cup new

\* variant of AfterRaise: the chunks of the batch are entered in the
\* dictionary before the call is made
AfterRaiseMutMarked(d, batch) ==
    d \cup {<<batch[p].chunk_id, <<0, 0>>>> : p \in 1..Len(batch)}

\* lines 158-188: processed_chunks when generate_embedding_batch raises:
\* the loop of lines 163-170 has not run
AfterRaise(d, batch) == d

\* variant of RaisedTo: the call goes on to the output files
RaisedToMutWrite == "write"

\* lines 185-188 and 295-296: the exception of a batch leaves
\* process_chunks_file and is caught by the loop of process_all_years,
\* which goes on to the next file
RaisedTo == "next"

\* variant of CleanUp: the progress file is left on the disk
CleanUpMutKeep(file) == file

\* lines 299-300: os.remove(self.resume_file) when the file exists
CleanUp(file) == IF file.exists THEN NoResumeFile ELSE file

\* variant of SortByIndex: the list is left as it was built
SortByIndexMutNoSort(cs) == cs

\* line 193: sort(key=lambda x: x['metadata']['chunk_index'])
SortByIndex(cs) == SortSeq(cs, LAMBDA a, b : a.chunk_index < b.chunk_index)

InitialProgress ==
    {NoResumeFile} \cup
    {File({<<ChunkId(1, i), <<0, i + 1>>>> : i \in S}) : S \in RestoredSets}

InitEmbed ==
    /\ IdleChunks
    /\ IdleSections
    /\ IdlePipeline
    /\ IdleClean
    /\ IdleRate
    /\ IdleRequest
    /\ IdleDay
    /\ IdlePool
    /\ chunk_files \in UNION {[1..n -> ChunkFileShapes] : n \in 0..MaxChunkFiles}
    /\ file_path = 1
    /\ g_results = <<>>
    /\ gpc = "start"
    /\ total_cost = 0
    /\ self_processed_chunks = 0
    /\ processed_chunks = {}
    /\ chunks_to_process = <<>>
    /\ chunks_with_embeddings = <<>>
    /\ estimated_cost = 0
    /\ batch_i = 0
    /\ resume_file \in InitialProgress
    /\ json_files = [f \in 1..Len(chunk_files) |-> NoJsonFile]
    /\ parquet_files = {}
    /\ api_log = <<>>
    /\ confirmations = <<>>
    /\ loaded = {}

\* process_all_years, lines 270-285: the chunk files, or the return when
\* there is none
G_Start ==
    /\ gpc = "start"
    /\ gpc' = IF chunk_files = <<>> THEN "done" ELSE "load"
    /\ UNCHANGED <<chunk_files, file_path, g_results, total_cost,
                   self_processed_chunks, processed_chunks, chunks_to_process,
                   chunks_with_embeddings, estimated_cost, batch_i,
                   resume_file, json_files, parquet_files, api_log,
                   confirmations>>
    /\ UNCHANGED loaded
    /\ UNCHANGED <<chunkVars, sectVars, pipeVars, cleanVars, rateVars, reqVars, dayVars, poolVars>>

\* process_chunks_file, lines 109-134
G_Load ==
    /\ gpc = "load"
    /\ LET chunks_ == FileChunks(file_path)
           progress == LoadProgress(resume_file)
       IN /\ processed_chunks' = progress
          /\ chunks_with_embeddings' = RestoredChunks(chunks_, progress)
          /\ chunks_to_process' = ChunksToProcess(chunks_, progress)
    /\ loaded' = LoadProgress(resume_file)
    /\ estimated_cost' = 0
    /\ batch_i' = 0
    /\ gpc' = "gate"
    /\ UNCHANGED <<chunk_files, file_path, g_results, total_cost,
                   self_processed_chunks, resume_file, json_files,
                   parquet_files, api_log, confirmations>>
    /\ UNCHANGED <<chunkVars, sectVars, pipeVars, cleanVars, rateVars, reqVars, dayVars, poolVars>>

\* process_chunks_file, lines 136-152: nothing to embed; or the estimate
\* and, above the threshold, the question: an EOFError leaves the call
\* through the handler of line 295, another answer than yes returns None
G_Gate ==
    /\ gpc = "gate"
    /\ IF chunks_to_process = <<>>
       THEN gpc' = "write" /\ UNCHANGED <<confirmations, estimated_cost>>
       ELSE /\ estimated_cost' = EstimateCost(chunks_to_process)
            /\ IF ~ExceedsThreshold(EstimateCost(chunks_to_process))
               THEN gpc' = "batch" /\ UNCHANGED confirmations
               ELSE \E response \in RESPONSES :
                       /\ confirmations' =
                             Append(confirmations,
                                    [file |-> file_path, response |-> response])
                       /\ gpc' = IF response # NoInput /\ Proceeds(response)
                                 THEN "batch" ELSE "next"
    /\ UNCHANGED <<chunk_files, file_path, g_results, total_cost,
                   self_processed_chunks, processed_chunks, chunks_to_process,
                   chunks_with_embeddings, batch_i, resume_file, json_files,
                   parquet_files, api_log>>
    /\ UNCHANGED loaded
    /\ UNCHANGED <<chunkVars, sectVars, pipeVars, cleanVars, rateVars, reqVars, dayVars, poolVars>>

\* process_chunks_file, lines 154-188: one batch.  The call returns the
\* vectors: they are attached, entered in processed_chunks and counted, and
\* the progress is saved when the count is a multiple of SAVE_INTERVAL; or
\* the call raises and the exception leaves process_chunks_file
G_Batch ==
    /\ gpc = "batch"
    /\ LET batch == Batch(chunks_to_process, batch_i)
           call  == Len(api_log) + 1
       IN \E ok \in BOOLEAN :
            /\ api_log' =
                  Append(api_log,
                         [call  |-> call, file |-> file_path, i |-> batch_i,
                          batch |-> [p \in 1..Len(batch) |-> batch[p].chunk_index],
                          gated |-> ExceedsThreshold(estimated_cost),
                          ok    |-> ok])
            /\ IF ok
               THEN LET zipped == Zip(batch, Embeddings(call, batch))
                        count  == self_processed_chunks + Len(zipped)
                        done   == UpdateProgress(processed_chunks, zipped)
                    IN /\ total_cost' =
                             total_cost + UsageTokens(batch) * COST_PER_1K_TOKENS
                       /\ chunks_with_embeddings' = chunks_with_embeddings \o zipped
                       /\ processed_chunks' = done
                       /\ self_processed_chunks' = count
                       /\ resume_file' = IF count % SAVE_INTERVAL = 0
                                         THEN File(done) ELSE resume_file
                       /\ batch_i' = batch_i + BATCH_SIZE
                       /\ gpc' = IF batch_i + BATCH_SIZE < Len(chunks_to_process)
                                 THEN "batch" ELSE "write"
               ELSE /\ processed_chunks' = AfterRaise(processed_chunks, batch)
                    /\ gpc' = RaisedTo
                    /\ UNCHANGED <<total_cost, chunks_with_embeddings,
                                   self_processed_chunks, resume_file, batch_i>>
    /\ UNCHANGED <<chunk_files, file_path, g_results, chunks_to_process,
                   estimated_cost, json_files, parquet_files, confirmations>>
    /\ UNCHANGED loaded
    /\ UNCHANGED <<chunkVars, sectVars, pipeVars, cleanVars, rateVars, reqVars, dayVars, poolVars>>

\* process_chunks_file, lines 192-266, and process_all_years, lines
\* 288-294: the chunks are sorted and written, the paths are recorded
G_Write ==
    /\ gpc = "write"
    /\ json_files' =
          [json_files EXCEPT
              ![file_path] = File(SortByIndex(chunks_with_embeddings))]
    /\ parquet_files' = parquet_files \cup {file_path}
    /\ g_results' = Append(g_results, [source |-> file_path])
    /\ gpc' = "next"
    /\ UNCHANGED <<chunk_files, file_path, total_cost, self_processed_chunks,
                   processed_chunks, chunks_to_process, chunks_with_embeddings,
                   estimated_cost, batch_i, resume_file, api_log,
                   confirmations>>
    /\ UNCHANGED loaded
    /\ UNCHANGED <<chunkVars, sectVars, pipeVars, cleanVars, rateVars, reqVars, dayVars, poolVars>>

\* process_all_years, lines 286 and 295-296: the next file, whatever the
\* call for this one gave
G_NextFile ==
    /\ gpc = "next"
    /\ gpc' = IF file_path < Len(chunk_files) THEN "load" ELSE "cleanup"
    /\ file_path' = file_path + 1
    /\ UNCHANGED <<chunk_files, g_results, total_cost, self_processed_chunks,
                   processed_chunks, chunks_to_process, chunks_with_embeddings,
                   estimated_cost, batch_i, resume_file, json_files,
                   parquet_files, api_log, confirmations>>
    /\ UNCHANGED loaded
    /\ UNCHANGED <<chunkVars, sectVars, pipeVars, cleanVars, rateVars, reqVars, dayVars, poolVars>>

\* process_all_years, lines 298-313: the progress file is removed
G_Cleanup ==
    /\ gpc = "cleanup"
    /\ resume_file' = CleanUp(resume_file)
    /\ gpc' = "done"
    /\ UNCHANGED <<chunk_files, file_path, g_results, total_cost,
                   self_processed_chunks, processed_chunks, chunks_to_process,
                   chunks_with_embeddings, estimated_cost, batch_i, json_files,
                   parquet_files, api_log, confirmations>>
    /\ UNCHANGED loaded
    /\ UNCHANGED <<chunkVars, sectVars, pipeVars, cleanVars, rateVars, reqVars, dayVars, poolVars>>

NextEmbed ==
    \/ G_Start \/ G_Load \/ G_Gate \/ G_Batch \/ G_Write \/ G_NextFile
    \/ G_Cleanup

SpecEmbed == InitEmbed /\ [][NextEmbed]_vars

\* ------------------------------------------- claims on generate_embeddings
\* the calls of the embedding API made for a file
CallsFor(f) == {k \in 1..Len(api_log) : api_log[k].file = f}

\* the cost question of process_chunks_file is answered in this step by an
\* answer that is not in the set yes
GateDeclines(yes) ==
    /\ Len(confirmations') = Len(confirmations) + 1
    /\ confirmations'[Len(confirmations')].response \notin yes

\* the step makes no call of the API, leaves the cost, the progress file and
\* the output files as they are, and ends the call of process_chunks_file
NoPaidWork ==
    /\ UNCHANGED <<total_cost, resume_file, json_files, parquet_files, api_log,
                   self_processed_chunks>>
    /\ gpc' = "next"

\* every call for a file whose estimate was above the threshold comes after
\* an answer of the set yes given for that file
CallsConfirmed(yes) ==
    \A k \in 1..Len(api_log) :
        api_log[k].gated =>
            \E j \in 1..Len(confirmations) :
                /\ confirmations[j].file = api_log[k].file
                /\ confirmations[j].response \in yes

\* the answers that are yes whatever the case of their letters
YesAnyCase == {r \in RESPONSES : Lower(r) = "yes"}

\* no call of the API was made for a file whose question got an answer
\* that is not in the set yes
DeclinedUncalled(yes) ==
    \A j \in 1..Len(confirmations) :
        confirmations[j].response \notin yes =>
            CallsFor(confirmations[j].file) = {}

\* C13: cost gate.  When the estimated cost of the chunks still to embed
\* exceeds COST_THRESHOLD and the confirmation is anything other than 'yes'
\* (including no confirmation being available), process_chunks_file makes
\* no embedding API call and does no partial work: total_cost, the progress
\* checkpoint and the output files are unchanged; whenever an embedding
\* call is made for a file whose estimate exceeds the threshold, a 'yes'
\* confirmation preceded it.
C13_CostGate ==
    /\ [][GateDeclines({"yes"}) => NoPaidWork]_vars
    /\ [](DeclinedUncalled({"yes"}) /\ CallsConfirmed({"yes"}))

\* C13, amended: the same with a confirmation that is 'yes' in any letter
\* case (the answer is compared after lower()): any other answer, or no
\* answer, makes no call and changes nothing, and a call for a file above
\* the threshold comes after such a confirmation.
C13_CostGateAnyCase ==
    /\ [][GateDeclines(YesAnyCase) => NoPaidWork]_vars
    /\ [](DeclinedUncalled(YesAnyCase) /\ CallsConfirmed(YesAnyCase))

\* a file above the threshold whose question was answered no: the call has
\* ended without a call of the API
C13_Witness ==
    /\ gpc = "next"
    /\ confirmations # <<>>
    /\ confirmations[Len(confirmations)].response = "no"
    /\ confirmations[Len(confirmations)].file = file_path
    /\ ExceedsThreshold(estimated_cost)
    /\ CallsFor(file_path) = {}

\* the chunk_ids of the batch of a call
BatchIds(a) == {ChunkId(a.file, a.batch[p]) : p \in 1..Len(a.batch)}

\* the chunk_ids a call of process_chunks_file for file f would have to
\* embed if it started with the disk as it is
RetryIds(f) ==
    LET cs == ChunksToProcess(FileChunks(f), LoadProgress(resume_file))
    IN {cs[j].chunk_id : j \in 1..Len(cs)}

\* C14: a failed batch does not advance the checkpoint.  If
\* generate_embedding_batch raises for a batch, no chunk_id of that batch is
\* added to the processed_chunks map and no chunk of that batch receives an
\* embedding, so a later retry sends the whole batch again.
C14_FailedBatch ==
    \A k \in 1..Len(api_log) :
        ~api_log[k].ok =>
            LET ids == BatchIds(api_log[k])
            IN /\ Keys(LoadProgress(resume_file)) \cap ids = {}
               /\ (file_path = api_log[k].file /\ gpc = "next") =>
                     /\ Keys(processed_chunks) \cap ids = {}
                     /\ \A j \in 1..Len(chunks_with_embeddings) :
                           chunks_with_embeddings[j].chunk_id \notin ids
               /\ ids \subseteq RetryIds(api_log[k].file)

\* the call for the second batch of a file has raised after the first batch
\* was attached and entered in processed_chunks
C14_Witness ==
    /\ gpc = "next"
    /\ api_log # <<>>
    /\ ~api_log[Len(api_log)].ok
    /\ api_log[Len(api_log)].file = file_path
    /\ api_log[Len(api_log)].i = BATCH_SIZE
    /\ Cardinality(processed_chunks) = BATCH_SIZE

\* process_chunks_file has returned the paths of the file it was called for
Completed ==
    /\ gpc = "next"
    /\ g_results # <<>>
    /\ g_results[Len(g_results)].source = file_path

\* C15: order is preserved when vectors are reattached.  In the output of
\* a completed process_chunks_file, chunks are in ascending chunk_index
\* order, every chunk of the input appears exactly once, and each newly
\* embedded chunk carries the vector returned at its own position in its
\* batch, whatever mix of chunks was restored from the progress checkpoint
\* and whatever the number of batches.
C15_OrderPreserved ==
    Completed =>
        LET out == json_files[file_path].content
            n   == chunk_files[file_path].n
        IN /\ json_files[file_path].exists
           /\ Len(out) = n
           /\ \A j \in 1..n :
                 /\ out[j].chunk_index = j - 1
                 /\ out[j].chunk_id = ChunkId(file_path, j - 1)
           /\ \A q \in 1..Len(chunks_to_process) :
                 \E k \in CallsFor(file_path) :
                    /\ api_log[k].ok
                    /\ api_log[k].i = ((q - 1) \div BATCH_SIZE) * BATCH_SIZE
                    /\ out[chunks_to_process[q].chunk_index + 1].embedding
                          = <<api_log[k].call, ((q - 1) % BATCH_SIZE) + 1>>

\* a completed call that restored the second chunk of its file from the
\* progress file and embedded the two others
C15_Witness ==
    /\ Completed
    /\ Len(chunks_to_process) = 2
    /\ chunks_to_process[2].chunk_index = 2
    /\ json_files[file_path].content[2].embedding = <<0, 2>>
    /\ json_files[file_path].content[3].embedding[2] = 2

\* a completed call that took two batches
TwoBatchesCompleted == Completed /\ Cardinality(CallsFor(file_path)) = 2

\* the chunk_ids of chunk file f
FileIds(f) == {ChunkId(f, j - 1) : j \in 1..chunk_files[f].n}

\* the chunk_ids of chunk file f that are not in the loaded checkpoint
AbsentIds(f) == FileIds(f) \ Keys(loaded)

\* process_chunks_file is running for file_path and has loaded the progress
InCall == gpc \in {"gate", "batch", "write", "next"}

\* C21: resume.  A chunk whose chunk_id is present in the loaded progress
\* checkpoint is never sent to the embedding API again by
\* process_chunks_file; its saved embedding is reused in the output, and
\* the cost estimate and batches cover only the chunks absent from the
\* checkpoint.
C21_Resume ==
    /\ InCall =>
          /\ \A k \in CallsFor(file_path) :
                BatchIds(api_log[k]) \subseteq AbsentIds(file_path)
          /\ {chunks_to_process[q].chunk_id : q \in 1..Len(chunks_to_process)}
                = AbsentIds(file_path)
    /\ (gpc = "batch" /\ file_path \in 1..Len(chunk_files)) =>
          estimated_cost =
              Cardinality(AbsentIds(file_path)) * chunk_files[file_path].w
                  * APPROX_TOKENS_PER_WORD * COST_PER_1K_TOKENS
    /\ Completed =>
          /\ \A x \in loaded :
                x[1] \in FileIds(file_path) =>
                    json_files[file_path].content[x[1][3] + 1].embedding = x[2]
          /\ UNION {BatchIds(api_log[k]) : k \in CallsFor(file_path)}
                = AbsentIds(file_path)

\* a completed call that found the first and the third chunk of its file in
\* the checkpoint and sent the second chunk alone
C21_Witness ==
    /\ Completed
    /\ Keys(loaded) = {ChunkId(1, 0), ChunkId(1, 2)}
    /\ Len(api_log) = 1
    /\ api_log[1].batch = <<1>>
    /\ json_files[1].content[1].embedding = <<0, 1>>

\* the chunk_ids embedded by the call of process_chunks_file that the
\* progress file does not hold
Unsaved == Keys(processed_chunks) \ Keys(LoadProgress(resume_file))

\* C23: progress is saved every SAVE_INTERVAL (100) chunks.  During
\* process_chunks_file, for every batch size and chunk count, the number of
\* chunks embedded since the last save_progress never exceeds
\* SAVE_INTERVAL, so a crash loses at most the embeddings of the last 100
\* chunks.
C23_SavedEveryInterval ==
    gpc \in {"batch", "write"} => Cardinality(Unsaved) <= SAVE_INTERVAL

\* an answer to the cost question of file f that does not let the call go on
Declined(f) ==
    \E j \in 1..Len(confirmations) :
        /\ confirmations[j].file = f
        /\ confirmations[j].response \notin YesAnyCase

\* a call of the API for a batch of file f has raised
BatchFailed(f) == \E k \in CallsFor(f) : ~api_log[k].ok

\* C28: embedded output is never partial.  process_chunks_file writes the
\* _embedded JSON and Parquet files only after every chunk of the input
\* file carries an embedding; if any batch call fails or the cost
\* confirmation is declined, no _embedded file is written for that input.
C28_OutputWhole ==
    \A f \in 1..Len(chunk_files) :
        /\ (json_files[f].exists \/ f \in parquet_files) =>
              LET out == json_files[f].content
              IN /\ json_files[f].exists /\ f \in parquet_files
                 /\ Len(out) = chunk_files[f].n
                 /\ {out[j].chunk_id : j \in 1..Len(out)} = FileIds(f)
                 /\ \A j \in 1..Len(out) :
                       \/ <<out[j].chunk_id, out[j].embedding>> \in loaded
                       \/ \E k \in CallsFor(f) :
                             api_log[k].ok /\ out[j].embedding[1] = k
        /\ (BatchFailed(f) \/ Declined(f)) =>
              ~json_files[f].exists /\ f \notin parquet_files

\* the call for the second batch of a file has raised after the first batch
\* was embedded, and the run has ended without an output file
C28_Witness ==
    /\ gpc = "done"
    /\ Len(api_log) = 2
    /\ api_log[1].ok
    /\ ~api_log[2].ok
    /\ total_cost > 0
    /\ ~json_files[1].exists

\* C29: the resume file does not outlive a run.  process_all_years, once it
\* has found chunk files, removes the progress file at the end of the run
\* whether or not some file failed or was cancelled, so embeddings paid for
\* in a run with a failure are not available to the resume of a later run.
C29_ResumeFileRemoved ==
    (gpc = "done" /\ chunk_files # <<>>) =>
        /\ ~resume_file.exists
        /\ \A f \in 1..Len(chunk_files) : RetryIds(f) = FileIds(f)

\* a run has ended whose only call of the API raised, with a checkpoint of
\* two embeddings loaded at its start
C29_Witness ==
    /\ gpc = "done"
    /\ BatchFailed(1)
    /\ Cardinality(loaded) = 2
    /\ ~resume_file.exists
    /\ ~json_files[1].exists

(***************************************************************************)
(* fetch_all_companies_fast.py: the rate limit of FastCompanyCollector.    *)
(* check_rate_limit runs under self.lock, so a call is one step.  The      *)
(* clock enters the code only through current_time - self.minute_start;   *)
(* since_minute_start is that difference in seconds, read at the start of  *)
(* the window, 59 seconds later, and 60 seconds later or more (line 97     *)
(* makes no difference between 60 and more).  recent holds the calls       *)
(* granted in the last 60 seconds as pairs <<age in seconds, calls>>.      *)
(* The threads of the pool start on the first tickers at once and take the *)
(* next ticker as soon as they have finished one.                          *)
(***************************************************************************)
rate_limit == 750
\* line 97: the length of the window, in seconds
WINDOW == 60
\* line 119: the calls a company needs
total_calls == 36

\* worker threads of the pool
NumWorkers == 2

\* tickers of a run of parallel_process_companies
MaxTickers == 22

Workers == 1..NumWorkers

\* the values of current_time - self.minute_start at which threads run
ClockReadings == {0, WINDOW - 1, WINDOW}

\* variant of WindowPassed: the window never ends
WindowPassedMutNever(since) == FALSE

\* line 97: current_time - self.minute_start >= 60
WindowPassed(since) == since >= WINDOW

\* variant of HasCapacity: the test is made on the counter alone
HasCapacityMutBefore(calls, calls_needed) == calls <= rate_limit

\* line 102: self.calls_this_minute + calls_needed <= self.rate_limit
HasCapacity(calls, calls_needed) == calls + calls_needed <= rate_limit

\* lines 97-99: calls_this_minute after the test of the window
AfterReset(calls, since) == IF WindowPassed(since) THEN 0 ELSE calls

\* the calls of the last minute, d seconds later
Older(rs, d) == {<<x[1] + d, x[2]>> : x \in {y \in rs : y[1] + d < WINDOW}}

\* the calls of the last minute, with n calls granted now
WithGrant(rs, n) ==
    LET now == {x \in rs : x[1] = 0}
        had == IF now = {} THEN 0 ELSE (CHOOSE x \in now : TRUE)[2]
    IN (rs \ now) \cup {<<0, had + n>>}

RECURSIVE SumCalls(_)
SumCalls(rs) ==
    IF rs = {} THEN 0
    ELSE LET x == CHOOSE y \in rs : TRUE IN x[2] + SumCalls(rs \ {x})

InitRate ==
    /\ IdleChunks
    /\ IdleSections
    /\ IdlePipeline
    /\ IdleClean
    /\ IdleEmbed
    /\ IdleRequest
    /\ IdleDay
    /\ IdlePool
    /\ calls_this_minute = 0
    /\ total_api_calls = 0
    /\ since_minute_start \in ClockReadings
    /\ pending = MaxTickers - NumWorkers
    /\ wpc = [w \in Workers |-> "check"]
    /\ granted_since_reset = 0
    /\ recent = {}
    /\ slept = {}
    /\ granted = {}

\* the clock goes on to a later reading
Tick ==
    /\ \E t \in ClockReadings :
          /\ t > since_minute_start
          /\ since_minute_start' = t
          /\ recent' = Older(recent, t - since_minute_start)
    /\ UNCHANGED <<calls_this_minute, total_api_calls, pending, wpc,
                   granted_since_reset, slept, granted>>
    /\ UNCHANGED <<chunkVars, sectVars, pipeVars, cleanVars, embedVars, reqVars, dayVars, poolVars>>

\* check_rate_limit(calls_needed), lines 93-106, called at line 110: the
\* window is reset when it has passed; with capacity the calls are counted
\* and wait_for_rate_limit returns, without it the worker goes to sleep
W_Check(w) ==
    /\ wpc[w] = "check"
    /\ LET calls == AfterReset(calls_this_minute, since_minute_start)
           reset == WindowPassed(since_minute_start)
       IN /\ since_minute_start' = IF reset THEN 0 ELSE since_minute_start
          /\ IF HasCapacity(calls, total_calls)
             THEN /\ calls_this_minute' = calls + total_calls
                  /\ total_api_calls' = total_api_calls + total_calls
                  /\ wpc' = [wpc EXCEPT ![w] = "work"]
                  /\ granted_since_reset' =
                        (IF reset THEN 0 ELSE granted_since_reset) + total_calls
                  /\ recent' = WithGrant(recent, total_calls)
                  /\ granted' = granted \cup {w}
                  /\ UNCHANGED slept
             ELSE /\ calls_this_minute' = calls
                  /\ wpc' = [wpc EXCEPT ![w] = "sleep"]
                  /\ granted_since_reset' =
                        IF reset THEN 0 ELSE granted_since_reset
                  /\ slept' = slept \cup {w}
                  /\ UNCHANGED <<total_api_calls, recent, granted>>
    /\ UNCHANGED pending
    /\ UNCHANGED <<chunkVars, sectVars, pipeVars, cleanVars, embedVars, reqVars, dayVars, poolVars>>

\* wait_for_rate_limit, line 111: time.sleep(0.1), then the next test
W_Sleep(w) ==
    /\ wpc[w] = "sleep"
    /\ wpc' = [wpc EXCEPT ![w] = "check"]
    /\ UNCHANGED <<calls_this_minute, total_api_calls, since_minute_start,
                   pending, granted_since_reset, recent, slept, granted>>
    /\ UNCHANGED <<chunkVars, sectVars, pipeVars, cleanVars, embedVars, reqVars, dayVars, poolVars>>

\* process_company_with_history, lines 124-143: the company is processed;
\* the thread of the pool then takes the next ticker submitted at line 162
\* and calls wait_for_rate_limit(36) for it (lines 115-122), or is idle
\* when none is left
W_Work(w) ==
    /\ wpc[w] = "work"
    /\ wpc' = [wpc EXCEPT ![w] = IF pending > 0 THEN "check" ELSE "idle"]
    /\ pending' = IF pending > 0 THEN pending - 1 ELSE 0
    /\ slept' = slept \ {w}
    /\ granted' = granted \ {w}
    /\ UNCHANGED <<calls_this_minute, total_api_calls, since_minute_start,
                   granted_since_reset, recent>>
    /\ UNCHANGED <<chunkVars, sectVars, pipeVars, cleanVars, embedVars, reqVars, dayVars, poolVars>>

NextRate ==
    \/ Tick
    \/ \E w \in Workers : W_Check(w)
    \/ \E w \in Workers : W_Sleep(w)
    \/ \E w \in Workers : W_Work(w)

SpecRate == InitRate /\ [][NextRate]_vars

\* the clock goes on and every thread that can run does run
FairRate ==
    /\ WF_vars(Tick)
    /\ \A w \in Workers :
          WF_vars(W_Check(w) \/ W_Sleep(w) \/ W_Work(w))

SpecRateFair == SpecRate /\ FairRate

\* ------------------------------------------------ claims on the rate limit
\* a call of check_rate_limit returns False in this step
ReturnsFalse ==
    \E w \in Workers : wpc[w] = "check" /\ wpc'[w] = "sleep"

\* C16: the shared rate-limit counter is safe under concurrency.  For any
\* interleaving of check_rate_limit calls, calls_this_minute never exceeds
\* rate_limit, the calls granted between two window resets sum to at most
\* rate_limit, and a call that returns False changes neither
\* calls_this_minute nor total_api_calls.
C16_CounterSafe ==
    /\ [](calls_this_minute <= rate_limit /\ granted_since_reset <= rate_limit)
    /\ [][ReturnsFalse => UNCHANGED <<calls_this_minute, total_api_calls>>]_vars

\* a call has returned False on a full window while the other worker holds
\* a grant
C16_Witness ==
    /\ calls_this_minute + total_calls > rate_limit
    /\ \E w \in Workers : wpc[w] = "sleep"
    /\ \E w \in Workers : wpc[w] = "work"

\* C17: sliding one-minute window.  Over any run of FastCompanyCollector,
\* the calls granted by check_rate_limit inside any interval of 60 seconds
\* (not only an interval aligned with minute_start) sum to at most
\* rate_limit.
C17_SlidingWindow == SumCalls(recent) <= rate_limit

\* C18: callers block until capacity is available.  Every call
\* wait_for_rate_limit(n) with n <= rate_limit eventually returns, given
\* that time advances and threads are scheduled fairly, even while other
\* workers keep requesting capacity; it returns only after check_rate_limit
\* has granted its n calls.
C18_WaitReturns ==
    /\ \A w \in Workers : []<>(wpc[w] \notin {"check", "sleep"})
    /\ [](\A w \in Workers : wpc[w] = "work" => w \in granted)

\* a call of wait_for_rate_limit that has slept has returned, and the
\* other worker is in its own call
C18_Witness ==
    \E w, v \in Workers :
        /\ wpc[w] = "work"
        /\ w \in slept
        /\ w \in granted
        /\ wpc[v] \in {"check", "sleep"}

(***************************************************************************)
(* fetcher.py: FMPClient._make_request.  An attempt is the body of the try *)
(* of lines 37-48: it returns the data, raises a                           *)
(* requests.exceptions.RequestException (no connection, a time-out, an     *)
(* HTTP error status from raise_for_status), or raises the plain Exception *)
(* of line 46 for an answer that holds an 'Error Message'.                 *)
(***************************************************************************)
FMP_RETRY_ATTEMPTS == 3
FMP_RETRY_DELAY == 1

\* the endpoints the methods of FMPClient ask for (lines 62-137)
ENDPOINTS == {"profile", "balance-sheet-statement", "quote"}

\* the exceptions of session.get and raise_for_status
REQUEST_EXCEPTIONS == {"ConnectionError", "Timeout", "HTTPError"}

\* line 46
API_ERROR == "Exception: API Error"

\* what an attempt can give
OUTCOMES == {"data", API_ERROR} \cup REQUEST_EXCEPTIONS

RECURSIVE Pow2(_)
Pow2(n) == IF n = 0 THEN 1 ELSE 2 * Pow2(n - 1)

\* variant of WaitTime: the same delay before every retry
WaitTimeMutConstant(a) == FMP_RETRY_DELAY

\* line 54: FMP_RETRY_DELAY * (2 ** attempt)
WaitTime(a) == FMP_RETRY_DELAY * Pow2(a)

InitRequest ==
    /\ IdleChunks
    /\ IdleSections
    /\ IdlePipeline
    /\ IdleClean
    /\ IdleEmbed
    /\ IdleRate
    /\ IdleDay
    /\ IdlePool
    /\ endpoint \in ENDPOINTS
    /\ attempt = 0
    /\ r_result = "none"
    /\ rpc = "try"
    /\ outcomes = <<>>
    /\ sleeps = <<>>

\* lines 36-58, up to the sleep: one attempt.  The data are returned; the
\* Exception of line 46 is not a RequestException and leaves the function;
\* a RequestException is followed by a sleep, or raised again when the
\* attempt was the last
MR_Attempt ==
    /\ rpc = "try"
    /\ attempt < FMP_RETRY_ATTEMPTS
    /\ \E o \in OUTCOMES :
          /\ outcomes' = Append(outcomes, o)
          /\ IF o = "data"
             THEN r_result' = "data" /\ rpc' = "returned"
             ELSE IF o \notin REQUEST_EXCEPTIONS
             THEN r_result' = o /\ rpc' = "raised"
             ELSE IF attempt < FMP_RETRY_ATTEMPTS - 1
             THEN rpc' = "sleep" /\ UNCHANGED r_result
             ELSE r_result' = o /\ rpc' = "raised"
    /\ UNCHANGED <<endpoint, attempt, sleeps>>
    /\ UNCHANGED <<chunkVars, sectVars, pipeVars, cleanVars, embedVars,
                   rateVars, dayVars, poolVars>>

\* lines 54-56 and 36: time.sleep(wait_time), then the next attempt
MR_Sleep ==
    /\ rpc = "sleep"
    /\ sleeps' = Append(sleeps, WaitTime(attempt))
    /\ attempt' = attempt + 1
    /\ rpc' = "try"
    /\ UNCHANGED <<endpoint, r_result, outcomes>>
    /\ UNCHANGED <<chunkVars, sectVars, pipeVars, cleanVars, embedVars,
                   rateVars, dayVars, poolVars>>

NextRequest == MR_Attempt \/ MR_Sleep

SpecRequest == InitRequest /\ [][NextRequest]_vars

\* ------------------------------------------------ claims on _make_request
\* attempt i (from 1) was followed by its sleep and by the next attempt, or
\* the function is in that sleep or about to make that attempt
Retried(i) ==
    \/ rpc = "sleep" /\ Len(outcomes) = i /\ Len(sleeps) = i - 1
    \/ /\ Len(sleeps) >= i
       /\ sleeps[i] = Pow2(i - 1)
       /\ Len(outcomes) > i \/ (rpc = "try" /\ attempt = i)

\* attempt i (from 1) ended the call by raising what it gave, with no sleep
\* after it
RaisedAt(i) ==
    /\ i = Len(outcomes)
    /\ rpc = "raised"
    /\ r_result = outcomes[i]
    /\ Len(sleeps) = i - 1

\* the retry loop, where the attempts that failed are those that gave an
\* outcome of the set failures
RetryLoop(failures) ==
    /\ Len(outcomes) <= 3
    /\ \A i \in 1..Len(outcomes) :
          /\ outcomes[i] = "data" =>
                i = Len(outcomes) /\ rpc = "returned" /\ r_result = "data"
          /\ (outcomes[i] \in failures /\ i < 3) => Retried(i)
          /\ (outcomes[i] \in failures /\ i = 3) => RaisedAt(i)

\* C24: retry loop of FMPClient._make_request.  A request is attempted at
\* most FMP_RETRY_ATTEMPTS (3) times; after a failed attempt i (0-based)
\* that is not the last, the client sleeps FMP_RETRY_DELAY x 2^i seconds
\* (1 s, then 2 s) and retries; a successful attempt returns its data at
\* once with no further attempt; when the last attempt fails the request
\* error is raised to the caller with no further sleep.
C24_RetryLoop == RetryLoop(OUTCOMES \ {"data"})

\* C24, amended: the same for the attempts that fail with a
\* RequestException; an attempt whose answer holds an 'Error Message'
\* raises its exception at once, whatever its number, with no sleep and no
\* further attempt.
C24_RetryLoopRequestErrors ==
    /\ RetryLoop(REQUEST_EXCEPTIONS)
    /\ \A i \in 1..Len(outcomes) : outcomes[i] = API_ERROR => RaisedAt(i)

\* the third attempt has failed after sleeps of one and two seconds, and its
\* exception was raised
C24_Witness ==
    /\ rpc = "raised"
    /\ Len(outcomes) = 3
    /\ outcomes[3] \in REQUEST_EXCEPTIONS
    /\ sleeps = <<1, 2>>

\* ------------------------------------------------------ the daily API limit
\* DataPipeline.process_company and HistoricalDataPipeline.
\* fetch_historical_data, as the worker threads of FastCompanyCollector call
\* them (process_company_with_history), on the table data_fetch_log.
FMP_RATE_LIMIT_PER_DAY == 250

\* companies of a run
MaxDayTickers == 3

\* the calls the rows logged earlier in the day hold, taken together
DayStarts == {0, 216, 248}

\* the calls fetch_company_data had counted when one of its five calls failed
FailedAfter == {0, 3}

\* a row of data_fetch_log
Row(s, n) == [success |-> s, api_calls_used |-> n]

RECURSIVE SumApiCalls(_, _)
SumApiCalls(rows, failed_too) ==
    IF rows = <<>> THEN 0
    ELSE (IF Head(rows).success \/ failed_too
          THEN Head(rows).api_calls_used ELSE 0)
         + SumApiCalls(Tail(rows), failed_too)

\* database.py get_api_calls_today: the sum of api_calls_used over the rows
\* of the day with success = true
get_api_calls_today == SumApiCalls(data_fetch_log, FALSE)

\* the calls logged in the day, over all rows
LoggedToday == SumApiCalls(data_fetch_log, TRUE)

\* pipeline.py check_rate_limit
check_rate_limit(calls) == ~(calls >= FMP_RATE_LIMIT_PER_DAY)

\* fetch_historical.py lines 41-49
api_calls_needed(years, include_quarters) ==
    IF include_quarters THEN years * 5 * 3 ELSE years * 3

\* the thread returns from process_company_with_history and the pool gives
\* it the next ticker, if there is one
NextTicker(w) ==
    /\ dpc' = [dpc EXCEPT ![w] = IF todo > 0 THEN "check" ELSE "idle"]
    /\ todo' = IF todo > 0 THEN todo - 1 ELSE 0

InitDay ==
    /\ IdleChunks
    /\ IdleSections
    /\ IdlePipeline
    /\ IdleClean
    /\ IdleEmbed
    /\ IdleRate
    /\ IdleRequest
    /\ IdlePool
    /\ \E n \in DayStarts :
          /\ data_fetch_log = IF n = 0 THEN <<>> ELSE <<Row(TRUE, n)>>
          /\ requests_made = n
    /\ calls_today = [w \in Workers |-> 0]
    /\ dpc = [w \in Workers |-> "check"]
    /\ todo \in 0..(MaxDayTickers - NumWorkers)
    /\ refused = {}

\* process_company lines 46-50, with check_rate_limit: the limit is reached
\* and False is returned, or the call goes on
D_Check(w) ==
    /\ dpc[w] = "check"
    /\ calls_today' = [calls_today EXCEPT ![w] = get_api_calls_today]
    /\ IF check_rate_limit(get_api_calls_today)
       THEN /\ dpc' = [dpc EXCEPT ![w] = "fetch"]
            /\ UNCHANGED <<todo, refused>>
       ELSE /\ refused' = refused \cup {w}
            /\ NextTicker(w)
    /\ UNCHANGED <<data_fetch_log, requests_made>>
    /\ UNCHANGED <<chunkVars, sectVars, pipeVars, cleanVars, embedVars,
                   rateVars, reqVars, poolVars>>

\* process_company lines 52-169, one of the five calls of fetch_company_data
\* failing after k were counted: the row is logged with success = false
D_FetchFails(w) ==
    /\ dpc[w] = "fetch"
    /\ \E k \in FailedAfter :
          /\ requests_made' = requests_made + k + 1
          /\ data_fetch_log' = Append(data_fetch_log, Row(FALSE, k))
    /\ NextTicker(w)
    /\ UNCHANGED <<calls_today, refused>>
    /\ UNCHANGED <<chunkVars, sectVars, pipeVars, cleanVars, embedVars,
                   rateVars, reqVars, poolVars>>

\* process_company lines 52-169, the five calls succeeding.
\* fetch_and_store_annual_report then finds no filing (one request, no row)
\* or logs a row of its two calls; the row of the five calls is logged last
D_Fetch(w) ==
    /\ dpc[w] = "fetch"
    /\ \E filing \in BOOLEAN :
          IF filing
          THEN /\ requests_made' = requests_made + 5 + 2
               /\ data_fetch_log' =
                     data_fetch_log \o <<Row(TRUE, 2), Row(TRUE, 5)>>
          ELSE /\ requests_made' = requests_made + 5 + 1
               /\ data_fetch_log' = Append(data_fetch_log, Row(TRUE, 5))
    /\ dpc' = [dpc EXCEPT ![w] = "hcheck"]
    /\ UNCHANGED <<calls_today, todo, refused>>
    /\ UNCHANGED <<chunkVars, sectVars, pipeVars, cleanVars, embedVars,
                   rateVars, reqVars, poolVars>>

\* fetch_historical_data(ticker, years=10, include_quarters=False) lines
\* 26-56: the company exists; the test of the limit
D_HistCheck(w) ==
    /\ dpc[w] = "hcheck"
    /\ calls_today' = [calls_today EXCEPT ![w] = get_api_calls_today]
    /\ IF get_api_calls_today + api_calls_needed(10, FALSE)
             > FMP_RATE_LIMIT_PER_DAY
       THEN /\ refused' = refused \cup {w}
            /\ NextTicker(w)
       ELSE /\ dpc' = [dpc EXCEPT ![w] = "hist"]
            /\ UNCHANGED <<todo, refused>>
    /\ UNCHANGED <<data_fetch_log, requests_made>>
    /\ UNCHANGED <<chunkVars, sectVars, pipeVars, cleanVars, embedVars,
                   rateVars, reqVars, poolVars>>

\* fetch_historical_data lines 58-149: the three annual calls, or a call
\* that fails after k were counted; the row is logged in both cases
D_Hist(w) ==
    /\ dpc[w] = "hist"
    /\ \/ /\ requests_made' = requests_made + 3
          /\ data_fetch_log' = Append(data_fetch_log, Row(TRUE, 3))
       \/ \E k \in 0..2 :
             /\ requests_made' = requests_made + k + 1
             /\ data_fetch_log' = Append(data_fetch_log, Row(FALSE, k))
    /\ NextTicker(w)
    /\ UNCHANGED <<calls_today, refused>>
    /\ UNCHANGED <<chunkVars, sectVars, pipeVars, cleanVars, embedVars,
                   rateVars, reqVars, poolVars>>

NextDay ==
    \E w \in Workers :
       \/ D_Check(w)
       \/ D_FetchFails(w)
       \/ D_Fetch(w)
       \/ D_HistCheck(w)
       \/ D_Hist(w)

SpecDay == InitDay /\ [][NextDay]_vars

\* C25: daily API limit.  In any interleaving of the calls of
\* process_company and fetch_historical_data the worker threads make, the
\* API calls made in the current day and the API calls logged for it never
\* exceed FMP_RATE_LIMIT_PER_DAY (250), and a call that finds the limit
\* reached returns False without making any API request.
C25_DailyLimit ==
    /\ [](requests_made <= FMP_RATE_LIMIT_PER_DAY)
    /\ [](LoggedToday <= FMP_RATE_LIMIT_PER_DAY)
    /\ [][refused' # refused => requests_made' = requests_made]_vars

\* ------------------------------------------------ the worker pool's outcomes
\* FastCompanyCollector.parallel_process_companies: the futures of the
\* thread pool and the loop that collects them.

\* most tickers of the list given to parallel_process_companies
MaxPoolTickers == 3

\* what future.result() gives: the value process_company_with_history
\* returned, or an exception
FUTURE_RESULTS == {"True", "False", "Exception"}

\* lines 150-151: the tickers of the list that are not in table companies
NewTickers(ts, ex) == SelectSeq(ts, LAMBDA t : t \notin ex)

CollectedMutRaiseDropped(r) ==
    IF r = "True" THEN "processed"
    ELSE IF r = "False" THEN "failed" ELSE "none"

\* lines 167-175: where the loop puts the ticker of a future
Collected(r) == IF r = "True" THEN "processed" ELSE "failed"

\* the futures a thread of the pool is running
Running == {i \in DOMAIN futures : futures[i] = "running"}

InitPool ==
    /\ IdleChunks
    /\ IdleSections
    /\ IdlePipeline
    /\ IdleClean
    /\ IdleEmbed
    /\ IdleRate
    /\ IdleRequest
    /\ IdleDay
    /\ \E n \in 0..MaxPoolTickers : tickers = [i \in 1..n |-> i]
    /\ existing \in SUBSET (1..MaxPoolTickers)
    /\ new_tickers = <<>>
    /\ futures = <<>>
    /\ fut_i = 0
    /\ completed = 0
    /\ qpc = "start"
    /\ processed_companies = {}
    /\ failed_companies = <<>>
    /\ finish_order = <<>>

\* lines 147-163: the tickers already in the database are filtered out and
\* one task per new ticker is submitted
PP_Submit ==
    /\ qpc = "start"
    /\ new_tickers' = NewTickers(tickers, existing)
    /\ futures' = [i \in 1..Len(NewTickers(tickers, existing)) |-> "pending"]
    /\ fut_i' = 1
    /\ qpc' = "collect"
    /\ UNCHANGED <<tickers, existing, completed, processed_companies,
                   failed_companies, finish_order>>
    /\ UNCHANGED <<chunkVars, sectVars, pipeVars, cleanVars, embedVars,
                   rateVars, reqVars, dayVars>>

\* a free thread of the executor takes the oldest task of its queue
PW_Start(i) ==
    /\ i \in DOMAIN futures
    /\ futures[i] = "pending"
    /\ \A j \in 1..(i - 1) : futures[j] # "pending"
    /\ Cardinality(Running) < NumWorkers
    /\ futures' = [futures EXCEPT ![i] = "running"]
    /\ UNCHANGED <<tickers, existing, new_tickers, fut_i, completed, qpc,
                   processed_companies, failed_companies, finish_order>>
    /\ UNCHANGED <<chunkVars, sectVars, pipeVars, cleanVars, embedVars,
                   rateVars, reqVars, dayVars>>

\* process_company_with_history ends in its thread: it returned True or
\* False, or an exception left it
PW_Finish(i) ==
    /\ i \in Running
    /\ \E r \in FUTURE_RESULTS : futures' = [futures EXCEPT ![i] = r]
    /\ finish_order' = Append(finish_order, i)
    /\ UNCHANGED <<tickers, existing, new_tickers, fut_i, completed, qpc,
                   processed_companies, failed_companies>>
    /\ UNCHANGED <<chunkVars, sectVars, pipeVars, cleanVars, embedVars,
                   rateVars, reqVars, dayVars>>

\* lines 166-177, one iteration: future.result() of the next future in the
\* order of submission, once that future is done
PP_Collect ==
    /\ qpc = "collect"
    /\ fut_i <= Len(futures)
    /\ futures[fut_i] \in FUTURE_RESULTS
    /\ processed_companies' =
          IF Collected(futures[fut_i]) = "processed"
          THEN processed_companies \cup {new_tickers[fut_i]}
          ELSE processed_companies
    /\ failed_companies' =
          IF Collected(futures[fut_i]) = "failed"
          THEN Append(failed_companies, new_tickers[fut_i])
          ELSE failed_companies
    /\ completed' = completed + 1
    /\ fut_i' = fut_i + 1
    /\ UNCHANGED <<tickers, existing, new_tickers, futures, qpc,
                   finish_order>>
    /\ UNCHANGED <<chunkVars, sectVars, pipeVars, cleanVars, embedVars,
                   rateVars, reqVars, dayVars>>

\* the loop is over and parallel_process_companies returns
PP_Return ==
    /\ qpc = "collect"
    /\ fut_i > Len(futures)
    /\ qpc' = "returned"
    /\ UNCHANGED <<tickers, existing, new_tickers, futures, fut_i, completed,
                   processed_companies, failed_companies, finish_order>>
    /\ UNCHANGED <<chunkVars, sectVars, pipeVars, cleanVars, embedVars,
                   rateVars, reqVars, dayVars>>

NextPool ==
    \/ PP_Submit
    \/ \E i \in 1..MaxPoolTickers : PW_Start(i)
    \/ \E i \in 1..MaxPoolTickers : PW_Finish(i)
    \/ PP_Collect
    \/ PP_Return

SpecPool == InitPool /\ [][NextPool]_vars

\* the number of times ticker t is in failed_companies
TimesFailed(t) ==
    Cardinality({i \in DOMAIN failed_companies : failed_companies[i] = t})

\* C30: outcome bookkeeping of the worker pool.  After
\* parallel_process_companies has returned, every ticker of the input that
\* was not in the database is in exactly one of processed_companies and
\* failed_companies (and once in the latter), whatever the order in which
\* the workers finished and whether a worker returned False or raised; the
\* tickers that were in the database are in neither.
C30_OutcomeBookkeeping ==
    qpc = "returned" =>
       /\ \A t \in Range(tickers) \ existing :
             \/ t \in processed_companies /\ TimesFailed(t) = 0
             \/ t \notin processed_companies /\ TimesFailed(t) = 1
       /\ \A t \in existing :
             t \notin processed_companies /\ TimesFailed(t) = 0

\* the call has returned for a list with a ticker of the database, a ticker
\* whose worker raised and a ticker whose worker returned True, the second
\* future having finished before the first
C30_Witness ==
    /\ qpc = "returned"
    /\ Range(tickers) \cap existing # {}
    /\ \E i \in DOMAIN futures : futures[i] = "Exception"
    /\ processed_companies # {}
    /\ Len(finish_order) = 2
    /\ finish_order[1] = 2

=============================================================================
